---- MODULE Spec2Model ----
(***************************************************************************)
(* Port-mapping orchestrator (PortControl) with its PCP client.            *)
(*                                                                         *)
(* The PCP client (pcp.ts), the helpers (utils.ts) and the orchestrator    *)
(* (PortControl) are translated from the source.  The NAT-PMP and UPnP     *)
(* clients (./nat-pmp, ./upnp) are imported by the orchestrator but their  *)
(* source is not available; they are modelled from the specification and   *)
(* every such definition carries the prefix Pmp / Upnp / Spec.             *)
(*                                                                         *)
(* JavaScript is single threaded: an action is one run-to-completion turn  *)
(* of the event loop, i.e. the code between two suspension points          *)
(* (getPrivateIps' 2 s timer, the Promise.all of a wave of UDP requests,   *)
(* a setTimeout callback).  What getPrivateIps finds and what the routers  *)
(* reply is chosen anew in every turn that reads it.                       *)
(***************************************************************************)
EXTENDS Integers, Sequences, FiniteSets, TLC

VARIABLES
    activeMappings,       \* PortControl.activeMappings: externalPort -> Mapping
    routerIpCache,        \* PortControl.routerIpCache: sequence of router IPs
    protocolSupportCache, \* PortControl.protocolSupportCache
    timers,               \* pending setTimeout callbacks armed by the clients
    nextTimerId,          \* the id the next setTimeout returns
    calls,                \* asynchronous client calls in flight
    probe,                \* the probeProtocolSupport call in flight, if any
    ev,                   \* observation of the turn just taken
    apiCalls,             \* public calls made so far
    closed,               \* close() has been called
    req,                  \* one sendPcpRequest followed on its own
    pure                  \* a helper of utils.ts applied to an input

vars == <<activeMappings, routerIpCache, protocolSupportCache, timers,
          nextTimerId, calls, probe, ev, apiCalls, closed, req, pure>>

(***************************************************************************)
(* Bounds of the model.                                                    *)
(***************************************************************************)
\* setTimeout ids handed out in one behaviour (ids are never reused)
MaxTimers == 3
\* client calls in flight at the same time
MaxCalls == 1
\* public calls (addMapping, deleteMapping, probeProtocolSupport, close) the
\* host makes in one behaviour
MaxApiCalls == 3
\* datagrams delivered to the socket of one request
MaxReplies == 2
\* length of the lists a helper of utils.ts is applied to
MaxLen == 2

(***************************************************************************)
(* Program constants.                                                      *)
(***************************************************************************)
\* Mapping.externalPort of a failed mapping
FailPort == -1
\* 24 * 60 * 60, the refresh period of a lifetime-0 mapping, in seconds
DAY == 86400
PCP_PROBE_PORT == 55556
NAT_PMP_PROBE_PORT == 55555
UPNP_PROBE_PORT == 55557
\* lifetime the probes ask for
PROBE_LIFETIME == 120
\* PCP result code NO_RESOURCES, accepted by a deletion
NO_RESOURCES == 8
\* Mapping.timeoutId / nonce / lifetime left undefined by the constructor
NoTimer == 0
NoNonce == 0
NoLifetime == -1

Undefined == "undefined"
\* an IPv4 address is its four octets; an undefined address is the empty tuple
NoIp == << >>

ROUTER_IPS ==
    << <<192,168,1,1>>, <<192,168,2,1>>, <<192,168,11,1>>,
       <<192,168,0,1>>, <<192,168,0,30>>, <<192,168,0,50>>, <<192,168,20,1>>,
       <<192,168,30,1>>, <<192,168,62,1>>, <<192,168,100,1>>, <<192,168,102,1>>,
       <<192,168,1,254>>, <<192,168,10,1>>, <<192,168,123,254>>, <<192,168,4,1>>,
       <<10,0,1,1>>, <<10,1,1,1>>, <<10,0,0,13>>, <<10,0,0,2>>, <<10,0,0,138>> >>

(***************************************************************************)
(* Inputs and environment of the model.                                    *)
(***************************************************************************)
IntPorts == {4000}
ExtPorts == {4000}
\* lifetimes a caller asks for: static (0) and five minutes
Lifetimes == {0, 300}
\* lifetimes a router grants
Grants == {120, DAY}
\* the external port a router assigns when it does not honour the suggestion
AltPorts == {4001}
\* result codes of the replies to a MAP request and to a deletion
AddResults == {0, 3}
DelResults == {0, NO_RESOURCES, 3}
\* random nonces sendPcpRequest draws
Nonces == {11}
\* routers of the LAN that may answer a request
Gateways == { <<192,168,1,1>>, <<10,0,0,2>> }
ExternalIp == <<203,0,113,5>>
\* what getPrivateIps may find: no host candidate, or the address on the LAN
HostIpChoices == { << >>, << <<192,168,1,42>> >> }
\* the gateway that speaks NAT-PMP
PmpGateways == { <<192,168,1,1>> }
ControlUrls == {"", "http://192.168.1.1:5000/ctl/IPConn"}

Protocols == <<"natPmp", "pcp", "upnp">>

(***************************************************************************)
(* utils.ts                                                                *)
(***************************************************************************)
Pow2(n) == <<1, 2, 4, 8, 16, 32, 64, 128, 256>>[n + 1]

\* ipaddr.js IPv4.match(other, bits): the first `bits` bits agree, compared
\* octet by octet (whole octets, then the high bits of the next one)
IpMatch(ip, other, bits) ==
    \A j \in 1..4 :
        LET b == bits - 8 * (j - 1)
        IN  IF b >= 8 THEN ip[j] = other[j]
            ELSE IF b <= 0 THEN TRUE
            ELSE ip[j] \div Pow2(8 - b) = other[j] \div Pow2(8 - b)

\* index of the first occurrence, 0 when absent (Array.indexOf is -1 then)
IndexOf(seq, x) ==
    IF \E i \in 1..Len(seq) : seq[i] = x
    THEN CHOOSE i \in 1..Len(seq) : seq[i] = x /\ \A j \in 1..(i-1) : seq[j] # x
    ELSE 0

Includes(seq, x) == \E i \in 1..Len(seq) : seq[i] = x

SeqMax(seq) == CHOOSE m \in {seq[i] : i \in 1..Len(seq)} :
                   \A i \in 1..Len(seq) : seq[i] <= m

\* the value the loop `for (mask = 1; mask < 32; mask++)` pushes for one list
\* entry: mask - 1 for the first mask that does not match; nothing is pushed
\* (-1 here) when all of the masks 1..31 match
RECURSIVE PushedPrefixFrom(_, _, _)
PushedPrefixFrom(ip, matchIp, mask) ==
    IF mask >= 32 THEN -1
    ELSE IF ~IpMatch(ip, matchIp, mask) THEN mask - 1
    ELSE PushedPrefixFrom(ip, matchIp, mask + 1)

PushedPrefix(ip, matchIp) == PushedPrefixFrom(ip, matchIp, 1)

PrefixMatches(ipList, matchIp) ==
    SelectSeq([i \in 1..Len(ipList) |-> PushedPrefix(ipList[i], matchIp)],
              LAMBDA p : p # -1)

\* ipList[prefixMatches.indexOf(max)]: undefined when nothing was pushed
longestPrefixMatch(ipList, matchIp) ==
    LET prefixMatches == PrefixMatches(ipList, matchIp)
    IN  IF Len(prefixMatches) = 0
        THEN NoIp
        ELSE ipList[IndexOf(prefixMatches, SeqMax(prefixMatches))]

filterRouterIps(privateIps) ==
    [i \in 1..Len(privateIps) |-> longestPrefixMatch(ROUTER_IPS, privateIps[i])]

arrDiff(listA, listB) == SelectSeq(listA, LAMBDA val : ~Includes(listB, val))

RECURSIVE Unique(_, _)
Unique(list, sum) ==
    IF list = << >> THEN sum
    ELSE Unique(Tail(list),
                IF Includes(sum, Head(list)) THEN sum ELSE Append(sum, Head(list)))

\* a faulty arrAdd that keeps repeated elements
arrAddRepeats(listA, listB) == listA \o listB

\* arrAdd: [...listA, ...listB] with repeated elements pushed once
arrAdd(listA, listB) == Unique(listA \o listB, << >>)

\* a helper waiting for its input, and its input and result
NoPure == [f |-> "none", list |-> << >>, target |-> NoIp, done |-> FALSE,
           out |-> NoIp]

\* addresses longestPrefixMatch is applied to: two hosts of one LAN that
\* differ in the last bit only, their router, and two other networks
LpmIps == { <<192,168,1,42>>, <<192,168,1,43>>, <<192,168,1,1>>,
            <<192,168,2,1>>, <<10,0,0,2>> }

SeqsUpTo(S, n) == UNION {[1..k -> S] : k \in 1..n}

LpmInputs ==
    {[NoPure EXCEPT !.f = "longestPrefixMatch", !.list = l, !.target = t] :
        l \in SeqsUpTo(LpmIps, MaxLen), t \in LpmIps}

LpmApply ==
    /\ pure.f = "longestPrefixMatch" /\ ~pure.done
    /\ pure' = [pure EXCEPT !.done = TRUE,
                            !.out = longestPrefixMatch(pure.list, pure.target)]

\* filterRouterIps and the privateIp chosen for a router, tabulated once for
\* the host addresses and routers of the model
RouterSet == {ROUTER_IPS[i] : i \in 1..Len(ROUTER_IPS)}
FilterTable == [ips \in HostIpChoices |-> filterRouterIps(ips)]
PrivateIpTable ==
    [ips \in HostIpChoices \ {<< >>} |->
        [r \in RouterSet |-> longestPrefixMatch(ips, r)]]
PrivateIpFor(privateIps, routerIp) ==
    IF routerIp \in RouterSet /\ privateIps \in DOMAIN PrivateIpTable
    THEN PrivateIpTable[privateIps][routerIp]
    ELSE longestPrefixMatch(privateIps, routerIp)

\* new utils.Mapping()
NewMapping ==
    [internalIp |-> NoIp, internalPort |-> 0, externalIp |-> NoIp,
     externalPort |-> FailPort, lifetime |-> NoLifetime, protocol |-> Undefined,
     timeoutId |-> NoTimer, nonce |-> NoNonce, deleter |-> << >>,
     errInfo |-> Undefined]

(***************************************************************************)
(* Observations and call records.                                          *)
(***************************************************************************)
\* a request that brought no response: the caught rejection, null
NullReply == [got |-> FALSE, result |-> 0, externalPort |-> 0,
              lifetime |-> 0, nonce |-> NoNonce]

\* what a turn shows to the outside: the public call it starts or the call
\* it completes; every other turn shows Ev("turn")
Ev(act) ==
    [act |-> act, op |-> "none", via |-> "none", proto |-> Undefined,
     intPort |-> 0, port |-> 0, lifetime |-> 0,
     outcome |-> "none", ext |-> FailPort, granted |-> NoLifetime,
     ok |-> FALSE, errInfo |-> Undefined, tried |-> << >>, outs |-> << >>,
     armed |-> NoTimer, accepted |-> FALSE, keys |-> {}, invoked |-> {},
     returned |-> << >>, sent |-> 0, replied |-> FALSE, zero |-> FALSE,
     first |-> NullReply]

\* the arguments of a sendPcpRequest that was not made
NoRequest == [intPort |-> 0, extPort |-> 0, lifetime |-> 0, nonce |-> NoNonce]

\* a client call in flight.  tried / outs: the clients the orchestrator has
\* started for this addMapping and the externalPort each one resolved with;
\* sent / replied: the waves of a PCP call whose requests went out, and
\* whether any of them brought a response that was not null (replied), one
\* with result code 0 (zero); request: what a deletion passed to sendPcpRequest
NewCall(op, via, proto, pc, intPort, extPort, lifetime, hasCache) ==
    [op |-> op, via |-> via, proto |-> proto, pc |-> pc,
     intPort |-> intPort, extPort |-> extPort, lifetime |-> lifetime,
     hasCache |-> hasCache, matched |-> << >>,
     privateIps |-> << >>, mapping |-> NewMapping,
     tried |-> <<proto>>, outs |-> << >>, sent |-> 0, replied |-> FALSE,
     zero |-> FALSE, request |-> NoRequest]

IsAdd(c) == c.op = "add"

\* every add in flight may arm one timer; ids must not run out
PendingAdds ==
    Cardinality({c \in calls : IsAdd(c)})
    + Cardinality({f \in {"natPmp", "upnp"} : probe[f] = "pending"})
RoomForAdd ==
    /\ Cardinality(calls) < MaxCalls /\ ~probe.active
    /\ nextTimerId + PendingAdds <= MaxTimers
RoomForCall == Cardinality(calls) < MaxCalls /\ ~probe.active

Insert(am, k, m) == [x \in (DOMAIN am) \cup {k} |-> IF x = k THEN m ELSE am[x]]
Remove(am, k) == [x \in (DOMAIN am) \ {k} |-> am[x]]

(***************************************************************************)
(* pcp.ts: addMapping                                                      *)
(***************************************************************************)
\* var reqLifetime = (lifetime === 0) ? 24 * 60 * 60 : lifetime
ReqLifetime(lifetime) == IF lifetime = 0 THEN DAY ELSE lifetime

\* the replies a router can give to an add that suggests extPort
AddReplies(extPort) ==
    [got : {TRUE}, result : AddResults, externalPort : {extPort} \cup AltPorts,
     lifetime : Grants, nonce : Nonces]

\* the replies a router can give to a deletion that carries nonce
DelReplies(nonce) ==
    [got : {TRUE}, result : DelResults, externalPort : {0},
     lifetime : {0}, nonce : {nonce}]

\* Promise.all over the wave: a reply from each gateway that answers within
\* 2 s, null (caught rejection) for every other candidate
WaveResponses(routerIps, replies) ==
    LET live == {routerIps[i] : i \in 1..Len(routerIps)} \cap Gateways
    IN  { [i \in 1..Len(routerIps) |->
              IF routerIps[i] \in live THEN g[routerIps[i]] ELSE NullReply] :
          g \in [live -> replies \cup {NullReply}] }

\* a faulty responses.forEach without `if (v === null) return`: a null
\* response is read like a reply, its fields being zero
RECURSIVE ParseResponsesAll(_, _, _, _, _, _)
ParseResponsesAll(responses, routerIps, privateIps, i, mapping, cache) ==
    IF i > Len(responses)
    THEN [mapping |-> mapping, cache |-> cache]
    ELSE ParseResponsesAll(responses, routerIps, privateIps, i + 1,
             [mapping EXCEPT
                 !.externalPort = responses[i].externalPort,
                 !.externalIp = ExternalIp,
                 !.internalIp = PrivateIpFor(privateIps, routerIps[i]),
                 !.lifetime = responses[i].lifetime,
                 !.nonce = responses[i].nonce],
             IF IndexOf(cache, routerIps[i]) = 0
             THEN Append(cache, routerIps[i]) ELSE cache)

\* a faulty responses.forEach that pushes the router of every reply without
\* the indexOf test
RECURSIVE ParseResponsesPush(_, _, _, _, _, _)
ParseResponsesPush(responses, routerIps, privateIps, i, mapping, cache) ==
    IF i > Len(responses)
    THEN [mapping |-> mapping, cache |-> cache]
    ELSE IF ~responses[i].got
    THEN ParseResponsesPush(responses, routerIps, privateIps, i + 1, mapping,
                            cache)
    ELSE ParseResponsesPush(responses, routerIps, privateIps, i + 1,
             [mapping EXCEPT
                 !.externalPort = responses[i].externalPort,
                 !.externalIp = ExternalIp,
                 !.internalIp = PrivateIpFor(privateIps, routerIps[i]),
                 !.lifetime = responses[i].lifetime,
                 !.nonce = responses[i].nonce],
             Append(cache, routerIps[i]))

\* responses.forEach of _sendPcpRequests, from index i on: every reply that is
\* not null overwrites the mapping's fields and adds its router to the cache
RECURSIVE ParseResponses(_, _, _, _, _, _)
ParseResponses(responses, routerIps, privateIps, i, mapping, cache) ==
    IF i > Len(responses)
    THEN [mapping |-> mapping, cache |-> cache]
    ELSE IF ~responses[i].got
    THEN ParseResponses(responses, routerIps, privateIps, i + 1, mapping, cache)
    ELSE ParseResponses(responses, routerIps, privateIps, i + 1,
             [mapping EXCEPT
                 !.externalPort = responses[i].externalPort,
                 !.externalIp = ExternalIp,
                 !.internalIp = PrivateIpFor(privateIps, routerIps[i]),
                 !.lifetime = responses[i].lifetime,
                 !.nonce = responses[i].nonce],
             IF IndexOf(cache, routerIps[i]) = 0
             THEN Append(cache, routerIps[i]) ELSE cache)

\* sendPcpRequest parses privateIp before anything is sent: an undefined
\* privateIp throws inside routerIps.map and fails the whole wave
WaveThrows(routerIps, privateIps) ==
    \E i \in 1..Len(routerIps) :
        \/ routerIps[i] = NoIp
        \/ PrivateIpFor(privateIps, routerIps[i]) = NoIp

\* a faulty refresh that asks again for the whole requested lifetime instead
\* of the part not yet granted
PcpTimerWhole(id, intPort, lifetime, mapping) ==
    LET dLifetime == ReqLifetime(lifetime) - mapping.lifetime
        base == [id |-> id, proto |-> "pcp", intPort |-> intPort,
                 port |-> mapping.externalPort, hasCache |-> FALSE,
                 requested |-> lifetime]
    IN  IF dLifetime > 0
        THEN base @@ [kind |-> "refresh", lifetime |-> ReqLifetime(lifetime),
                      delay |-> mapping.lifetime, stored |-> TRUE]
        ELSE IF lifetime = 0
        THEN base @@ [kind |-> "refresh", lifetime |-> 0,
                      delay |-> DAY, stored |-> TRUE]
        ELSE base @@ [kind |-> "expiry", lifetime |-> 0,
                      delay |-> mapping.lifetime, stored |-> FALSE]

\* a faulty timer choice that keeps refreshing a mapping granted in full
PcpTimerNoExpiry(id, intPort, lifetime, mapping) ==
    LET dLifetime == ReqLifetime(lifetime) - mapping.lifetime
        base == [id |-> id, proto |-> "pcp", intPort |-> intPort,
                 port |-> mapping.externalPort, hasCache |-> FALSE,
                 requested |-> lifetime]
    IN  IF dLifetime > 0
        THEN base @@ [kind |-> "refresh", lifetime |-> dLifetime,
                      delay |-> mapping.lifetime, stored |-> TRUE]
        ELSE IF lifetime = 0
        THEN base @@ [kind |-> "refresh", lifetime |-> 0,
                      delay |-> DAY, stored |-> TRUE]
        ELSE base @@ [kind |-> "refresh", lifetime |-> ReqLifetime(lifetime),
                      delay |-> mapping.lifetime, stored |-> TRUE]

\* the timer _saveAndRefreshMapping arms for a successful mapping
PcpTimer(id, intPort, lifetime, mapping) ==
    LET dLifetime == ReqLifetime(lifetime) - mapping.lifetime
        base == [id |-> id, proto |-> "pcp", intPort |-> intPort,
                 port |-> mapping.externalPort, hasCache |-> FALSE,
                 requested |-> lifetime]
    IN  IF dLifetime > 0
        THEN base @@ [kind |-> "refresh", lifetime |-> dLifetime,
                      delay |-> mapping.lifetime, stored |-> TRUE]
        ELSE IF lifetime = 0
        THEN base @@ [kind |-> "refresh", lifetime |-> 0,
                      delay |-> DAY, stored |-> TRUE]
        ELSE base @@ [kind |-> "expiry", lifetime |-> 0,
                      delay |-> mapping.lifetime, stored |-> FALSE]

\* a faulty _saveAndRefreshMapping that stores the mapping without testing
\* externalPort !== -1
PcpSaveUnguarded(intPort, lifetime, hasCache, mapping, am, tm, nid) ==
    LET t == PcpTimer(nid, intPort, lifetime, mapping)
        m == [mapping EXCEPT
                 !.timeoutId = IF t.stored THEN nid ELSE NoTimer,
                 !.deleter = <<"pcp", hasCache>>]
    IN  [mapping |-> m,
         activeMappings |-> Insert(am, m.externalPort, m),
         timers |-> tm \cup {t},
         nextTimerId |-> nid + 1]

\* _saveAndRefreshMapping: arm the timer, keep its id in mapping.timeoutId when
\* the code assigns it, bind the deleter (to this call's routerIpCache) and
\* store the mapping under its external port
PcpSave(intPort, lifetime, hasCache, mapping, am, tm, nid) ==
    IF mapping.externalPort = FailPort
    THEN [mapping |-> mapping, activeMappings |-> am, timers |-> tm,
          nextTimerId |-> nid]
    ELSE LET t == PcpTimer(nid, intPort, lifetime, mapping)
             m == [mapping EXCEPT
                      !.timeoutId = IF t.stored THEN nid ELSE NoTimer,
                      !.deleter = <<"pcp", hasCache>>]
         IN  [mapping |-> m,
              activeMappings |-> Insert(am, m.externalPort, m),
              timers |-> tm \cup {t},
              nextTimerId |-> nid + 1]

(***************************************************************************)
(* pcp.ts: the waves of one add, computed from a router-IP cache and the   *)
(* host's addresses, and one wave run against the routers' answers         *)
(***************************************************************************)
\* var matchedRouterIps = utils.arrAdd(routerIpCache,
\*                                     utils.filterRouterIps(privateIps))
MatchedRouterIps(cache, privateIps) ==
    arrAdd(cache, filterRouterIps(privateIps))

\* var otherRouterIps = utils.arrDiff(utils.ROUTER_IPS, matchedRouterIps)
OtherRouterIps(matchedRouterIps) == arrDiff(ROUTER_IPS, matchedRouterIps)

\* host addresses: one far from every candidate router, one that differs from
\* the candidate 10.0.0.2 in the last bit only
WaveHostIps == { <<192,168,1,42>>, <<10,0,0,3>> }

\* the caches the client can have built: routers that answered, no repeats
WaveCaches ==
    {c \in {<< >>} \cup SeqsUpTo(Gateways, 2) :
        \A i, j \in 1..Len(c) : i # j => c[i] # c[j]}

\* what a router answers when it is asked: a grant, or nothing
WaveAnswers == [Gateways -> {NullReply} \cup
                  [got : {TRUE}, result : {0}, externalPort : ExtPorts,
                   lifetime : {120}, nonce : Nonces]]

NoWave ==
    [f |-> "none", cache |-> << >>, privateIps |-> << >>, wave |-> "none",
     answers |-> [g \in Gateways |-> NullReply], done |-> FALSE,
     matched |-> << >>, other |-> << >>, routerIps |-> << >>,
     threw |-> FALSE, mapping |-> NewMapping, cacheOut |-> << >>]

WaveInputs ==
    {[NoWave EXCEPT !.f = "_sendPcpRequests", !.cache = c, !.privateIps = ips,
                    !.wave = w, !.answers = a] :
        c \in WaveCaches, ips \in SeqsUpTo(WaveHostIps, MaxLen),
        w \in {"matched", "other"}, a \in WaveAnswers}

\* the response of each candidate of the wave: the answer of the router when
\* there is one at that address, else null
AnswersOf(routerIps, answers) ==
    [i \in 1..Len(routerIps) |->
        IF routerIps[i] \in DOMAIN answers THEN answers[routerIps[i]]
        ELSE NullReply]

\* _sendPcpRequests(routerIps) with getPrivateIps resolved: a throw of
\* sendPcpRequest inside routerIps.map skips the parsing and the final catch
\* yields the mapping as it was; else the responses are parsed
SendPcpRequests(routerIps, privateIps, answers, mapping, cache) ==
    IF WaveThrows(routerIps, privateIps)
    THEN [mapping |-> mapping, cache |-> cache, threw |-> TRUE]
    ELSE ParseResponses(AnswersOf(routerIps, answers), routerIps, privateIps,
                        1, mapping, cache) @@ [threw |-> FALSE]

\* the two waves are computed and the chosen one is run
WaveApply ==
    /\ pure.f = "_sendPcpRequests" /\ ~pure.done
    /\ LET matchedRouterIps == MatchedRouterIps(pure.cache, pure.privateIps)
           otherRouterIps == OtherRouterIps(matchedRouterIps)
           routerIps == IF pure.wave = "matched" THEN matchedRouterIps
                        ELSE otherRouterIps
           r == SendPcpRequests(routerIps, pure.privateIps, pure.answers,
                                NewMapping, pure.cache)
       IN  pure' = [pure EXCEPT !.done = TRUE,
                                !.matched = matchedRouterIps,
                                !.other = otherRouterIps,
                                !.routerIps = routerIps,
                                !.threw = r.threw,
                                !.mapping = r.mapping,
                                !.cacheOut = r.cache]

(***************************************************************************)
(* pcp.ts: sendPcpRequest, one request followed from its socket to the     *)
(* settled race                                                            *)
(***************************************************************************)
\* nonces utils.randInt draws when the caller passes none
RandNonces == {7}

NoReq ==
    [active |-> FALSE, routerIp |-> NoIp, privateIp |-> NoIp, intPort |-> 0,
     extPort |-> 0, lifetime |-> 0, nonce |-> NoNonce, bound |-> FALSE,
     timer |-> "none", replies |-> 0, late |-> FALSE, closes |-> 0,
     outcome |-> "none", data |-> NullReply]

\* sendPcpRequest(routerIp, privateIp, intPort, extPort, lifetime, nonce) up to
\* its return: the nonce is drawn when undefined, the socket is created, the
\* 2 s countdown is armed and the race is pending
sendPcpRequest(routerIp, privateIp, intPort, extPort, lifetime, nonce, rnd) ==
    [NoReq EXCEPT !.active = TRUE, !.routerIp = routerIp,
                  !.privateIp = privateIp, !.intPort = intPort,
                  !.extPort = extPort, !.lifetime = lifetime,
                  !.nonce = IF nonce = NoNonce THEN rnd ELSE nonce,
                  !.timer = "armed", !.outcome = "pending"]

\* the requests the client sends: adds (reqLifetime, no nonce) and deletions
\* (external port 0, lifetime 0, the mapping's nonce)
Requests ==
    {sendPcpRequest(g, ip, intPort, extPort, ReqLifetime(l), NoNonce, rnd) :
        g \in Gateways, ip \in {<<192,168,1,42>>}, intPort \in IntPorts,
        extPort \in ExtPorts, l \in Lifetimes, rnd \in RandNonces}
    \cup
    {sendPcpRequest(g, ip, intPort, 0, 0, n, rnd) :
        g \in Gateways, ip \in {<<192,168,1,42>>}, intPort \in IntPorts,
        n \in Nonces, rnd \in RandNonces}

\* the datagrams a router may answer a request with
ReqReplies(r) ==
    [got : {TRUE}, result : AddResults \cup DelResults,
     externalPort : {r.extPort} \cup AltPorts, lifetime : {r.lifetime},
     nonce : {r.nonce}]

\* utils.closeSocket(socket)
closeSocket(r) == [r EXCEPT !.closes = @ + 1]

\* a faulty race that lets every later F or R decide the outcome anew
SettleAgain(outcome, to) == to

\* F / R of the promises raced by Promise.race: the first call settles the
\* race, later calls change nothing
Settle(outcome, to) == IF outcome = "pending" THEN to ELSE outcome

\* socket.bind('0.0.0.0', 0) resolved: the request is built and sent
ReqBind ==
    /\ req.active /\ ~req.bound /\ req.closes = 0
    /\ req' = [req EXCEPT !.bound = TRUE]

\* socket.on('onData'): closeSocket(socket); F(pcpResponse.data).  Settling a
\* settled promise changes nothing
ReqData ==
    /\ req.active /\ req.bound /\ req.replies < MaxReplies
    /\ \E d \in ReqReplies(req) :
          req' = [closeSocket(req) EXCEPT
                     !.replies = @ + 1,
                     !.late = @ \/ req.timer = "fired",
                     !.outcome = Settle(@, "fulfilled"),
                     !.data = IF req.outcome = "pending" THEN d ELSE @]

\* the setTimeout of utils.countdownReject(2000, 'No PCP response', cb) fires:
\* cb() closes the socket, then R(new Error(msg)).  Nothing clears this timer
ReqTimeout ==
    /\ req.active /\ req.timer = "armed"
    /\ req' = [closeSocket(req) EXCEPT
                  !.timer = "fired",
                  !.outcome = Settle(@, "rejected")]

(***************************************************************************)
(* PortControl: the orchestrator                                           *)
(***************************************************************************)
EmptyMap == [x \in {} |-> NewMapping]

NoProbe == [active |-> FALSE, natPmp |-> "none", pcp |-> "none",
            upnp |-> "none", upnpControlUrl |-> "none"]

MainInit ==
    /\ activeMappings = EmptyMap
    /\ routerIpCache = << >>
    /\ protocolSupportCache = [natPmp |-> Undefined, pcp |-> Undefined,
                               upnp |-> Undefined, upnpControlUrl |-> Undefined]
    /\ timers = {}
    /\ nextTimerId = 1
    /\ calls = {}
    /\ probe = NoProbe
    /\ ev = Ev("init")
    /\ apiCalls = 0
    /\ closed = FALSE

Init == MainInit /\ req = NoReq /\ pure = NoPure

\* a faulty dispatch that falls back to UPnP when no protocol is supported
DispatchFallback(cache) ==
    IF cache.natPmp = Undefined THEN "chain"
    ELSE IF cache.natPmp = "true" THEN "natPmp"
    ELSE IF cache.pcp = "true" THEN "pcp"
    ELSE "upnp"

\* a faulty addMapping that runs the fallback chain whatever the cache holds
DispatchChain(cache) == "chain"

\* which branch PortControl.addMapping takes: the fallback chain while the
\* cache is empty, else the first supported protocol, else none
Dispatch(cache) ==
    IF cache.natPmp = Undefined THEN "chain"
    ELSE IF cache.natPmp = "true" THEN "natPmp"
    ELSE IF cache.pcp = "true" THEN "pcp"
    ELSE IF cache.upnp = "true" THEN "upnp"
    ELSE "none"

\* a faulty chain that goes on to the next client whatever the previous one
\* resolved with
ChainNextEager(proto, mapping) ==
    IF proto = "natPmp" THEN "pcp"
    ELSE IF proto = "pcp" THEN "upnp"
    ELSE "return"

\* the two .then callbacks of the fallback chain: what follows the client
\* `proto` once it resolved with `mapping`
ChainNext(proto, mapping) ==
    IF proto = "natPmp"
    THEN IF mapping.externalPort # FailPort THEN "return" ELSE "pcp"
    ELSE IF proto = "pcp"
    THEN IF mapping.externalPort # FailPort THEN "return" ELSE "upnp"
    ELSE "return"

\* where a client's addMapping first suspends
StartPc(proto) ==
    IF proto = "natPmp" THEN "pmp" ELSE IF proto = "pcp" THEN "waves" ELSE "upnp"

\* a client's addMapping(intPort, extPort, lifetime, ...) up to its first
\* suspension; pcp.addMapping has set internalPort and protocol by then
StartAdd(via, proto, intPort, extPort, lifetime, hasCache) ==
    [NewCall("add", via, proto, StartPc(proto), intPort, extPort, lifetime,
             hasCache)
     EXCEPT !.mapping = IF proto = "pcp"
                        THEN [NewMapping EXCEPT !.internalPort = intPort,
                                                !.protocol = "pcp"]
                        ELSE NewMapping]

OpOf(via) ==
    IF via \in {"chain", "direct"} THEN "addMapping"
    ELSE IF via = "refresh" THEN "refresh" ELSE "probePcp"

\* PortControl.addMapping(intPort, extPort, lifetime)
AddMapping ==
    \E intPort \in IntPorts, extPort \in ExtPorts, lifetime \in Lifetimes :
        LET d == Dispatch(protocolSupportCache)
            e == [Ev("addMapping") EXCEPT !.op = "addMapping",
                     !.intPort = intPort, !.port = extPort,
                     !.lifetime = lifetime]
        IN  IF d = "none"
            THEN /\ ev' = [e EXCEPT !.outcome = "resolved", !.via = "direct",
                              !.ext = NewMapping.externalPort,
                              !.errInfo = "No protocols are supported from last probe"]
                 /\ UNCHANGED <<activeMappings, routerIpCache,
                                protocolSupportCache, timers, nextTimerId,
                                calls, probe>>
            ELSE /\ RoomForAdd
                 /\ calls' = calls \cup
                       {IF d = "chain"
                        THEN StartAdd("chain", "natPmp", intPort, extPort,
                                      lifetime, TRUE)
                        ELSE StartAdd("direct", d, intPort, extPort,
                                      lifetime, TRUE)}
                 /\ ev' = [e EXCEPT !.via = IF d = "chain" THEN "chain" ELSE "direct"]
                 /\ UNCHANGED <<activeMappings, routerIpCache,
                                protocolSupportCache, timers, nextTimerId,
                                probe>>

\* the client call c resolved with mapping m in the turn `act`: the chain goes
\* on with the next client or the result reaches whoever waits for it
\* what the responses of a wave held: whether any was not null, whether any
\* carried result code 0, and the first one, in the wave's order, that was
\* not null
Seen(responses) ==
    LET got == {i \in 1..Len(responses) : responses[i].got}
    IN  [replied |-> got # {},
         zero |-> \E i \in got : responses[i].result = 0,
         first |-> IF got = {} THEN NullReply
                   ELSE responses[CHOOSE i \in got : \A j \in got : i <= j]]

\* a faulty probe that reports support whatever the add returned
probeSupportAlways(mapping) == "true"

\* probeSupport: the add on the probe port resolved with `mapping`;
\* (mapping) => mapping.externalPort !== -1
probeSupport(mapping) ==
    IF mapping.externalPort # FailPort THEN "true" ELSE "false"

ResolveAs(c, m, act, seen) ==
    LET outs == Append(c.outs, m.externalPort)
        next == IF c.via = "chain" THEN ChainNext(c.proto, m) ELSE "return"
    IN  IF next = "return"
        THEN /\ calls' = calls \ {c}
             /\ probe' = IF c.via = "probe"
                         THEN [probe EXCEPT !.pcp = probeSupport(m)]
                         ELSE probe
             /\ ev' = [Ev(act) EXCEPT !.op = OpOf(c.via), !.via = c.via,
                          !.proto = c.proto, !.intPort = c.intPort,
                          !.port = c.extPort, !.lifetime = c.lifetime,
                          !.outcome = "resolved", !.ext = m.externalPort,
                          !.granted = m.lifetime, !.errInfo = m.errInfo,
                          !.tried = c.tried, !.outs = outs,
                          !.armed = IF m.externalPort # FailPort
                                    THEN nextTimerId ELSE NoTimer,
                          !.sent = c.sent,
                          !.replied = c.replied \/ seen.replied,
                          !.zero = c.zero \/ seen.zero,
                          !.first = seen.first]
        ELSE /\ calls' = (calls \ {c}) \cup
                   {[StartAdd("chain", next, c.intPort, c.extPort, c.lifetime,
                              TRUE)
                     EXCEPT !.tried = Append(c.tried, next), !.outs = outs]}
             /\ probe' = probe
             /\ ev' = Ev("turn")

Resolve(c, m, act) == ResolveAs(c, m, act, Seen(<< >>))

\* the client call c rejected: nothing catches it on the way to the caller
Reject(c, act) ==
    /\ calls' = calls \ {c}
    /\ probe' = IF c.via = "probe" THEN [probe EXCEPT !.pcp = "rejected"]
                ELSE probe
    /\ ev' = [Ev(act) EXCEPT
                 !.op = IF c.via = "probe" THEN "probeProtocolSupport"
                        ELSE OpOf(c.via),
                 !.via = c.via, !.proto = c.proto, !.intPort = c.intPort,
                 !.port = c.extPort, !.lifetime = c.lifetime,
                 !.outcome = "rejected", !.tried = c.tried, !.outs = c.outs]

(***************************************************************************)
(* pcp.ts: the turns of addMapping                                         *)
(***************************************************************************)
\* _sendPcpRequestsInWaves after its getPrivateIps settled: a rejection, or
\* the TypeError of arrAdd(undefined, ..), rejects the whole addMapping
PcpWaves ==
    \E c \in calls, hostIps \in HostIpChoices :
        /\ IsAdd(c) /\ c.proto = "pcp" /\ c.pc = "waves"
        /\ IF hostIps = << >> \/ ~c.hasCache
           THEN Reject(c, "PcpWaves")
           ELSE LET matchedRouterIps ==
                        arrAdd(routerIpCache, FilterTable[hostIps])
                IN  /\ calls' = (calls \ {c}) \cup
                          {[c EXCEPT !.matched = matchedRouterIps,
                                     !.pc = "ips1"]}
                    /\ probe' = probe
                    /\ ev' = Ev("turn")
        /\ UNCHANGED <<activeMappings, routerIpCache, protocolSupportCache,
                       timers, nextTimerId>>

Wave(c) == IF c.pc \in {"ips1", "reqs1"} THEN c.matched
           ELSE OtherRouterIps(c.matched)

\* a faulty _sendPcpRequestsInWaves that goes on to the other wave whatever
\* the matched wave produced
OtherWaveAlways(c, m) == c.pc \in {"ips1", "reqs1"}

\* `if (mapping.externalPort !== -1) return mapping;
\*  return _sendPcpRequests(otherRouterIps)` after the matched wave
OtherWaveNext(c, m) ==
    c.pc \in {"ips1", "reqs1"} /\ m.externalPort = FailPort

\* a wave ended with mapping m: _sendPcpRequestsInWaves goes on to the other
\* wave after a failed first one, else _saveAndRefreshMapping runs and the
\* call resolves
WaveDone(c, m, seen, act) ==
    IF OtherWaveNext(c, m)
    THEN /\ calls' = (calls \ {c}) \cup
               {[c EXCEPT !.mapping = m, !.pc = "ips2",
                          !.replied = @ \/ seen.replied,
                          !.zero = @ \/ seen.zero]}
         /\ probe' = probe
         /\ ev' = Ev("turn")
         /\ UNCHANGED <<activeMappings, timers, nextTimerId>>
    ELSE LET s == PcpSave(c.intPort, c.lifetime, c.hasCache, m,
                          activeMappings, timers, nextTimerId)
         IN  /\ activeMappings' = s.activeMappings
             /\ timers' = s.timers
             /\ nextTimerId' = s.nextTimerId
             /\ ResolveAs(c, s.mapping, act, seen)

\* _sendPcpRequests after its own getPrivateIps settled: the requests of the
\* wave go out, or the rejection / the throw of sendPcpRequest is caught and
\* the wave yields the mapping as it is
PcpSend ==
    \E c \in calls, hostIps \in HostIpChoices :
        /\ IsAdd(c) /\ c.proto = "pcp" /\ c.pc \in {"ips1", "ips2"}
        /\ IF hostIps = << >> \/ WaveThrows(Wave(c), hostIps)
           THEN WaveDone(c, c.mapping, Seen(<< >>), "PcpSend")
           ELSE /\ calls' = (calls \ {c}) \cup
                      {[c EXCEPT !.privateIps = hostIps,
                                 !.sent = @ + 1,
                                 !.pc = IF c.pc = "ips1" THEN "reqs1" ELSE "reqs2"]}
                /\ probe' = probe
                /\ ev' = Ev("turn")
                /\ UNCHANGED <<activeMappings, timers, nextTimerId>>
        /\ UNCHANGED <<routerIpCache, protocolSupportCache>>

\* the Promise.all of a wave settled: the responses are parsed
PcpReplies ==
    \E c \in calls :
        /\ IsAdd(c) /\ c.proto = "pcp" /\ c.pc \in {"reqs1", "reqs2"}
        /\ \E responses \in WaveResponses(Wave(c), AddReplies(c.extPort)) :
              LET r == ParseResponses(responses, Wave(c), c.privateIps, 1,
                                      c.mapping, routerIpCache)
              IN  /\ routerIpCache' = r.cache
                  /\ WaveDone(c, r.mapping, Seen(responses), "PcpReplies")
        /\ UNCHANGED <<protocolSupportCache>>

(***************************************************************************)
(* NAT-PMP and UPnP clients, from the specification (4.E, 4.G, 4.H)        *)
(***************************************************************************)
\* 4.H step 3: the timer armed for a successful mapping
SpecTimer(id, proto, intPort, requested, mapping) ==
    LET base == [id |-> id, proto |-> proto, intPort |-> intPort,
                 port |-> mapping.externalPort, hasCache |-> TRUE,
                 requested |-> requested, stored |-> TRUE]
    IN  IF requested = 0
        THEN base @@ [kind |-> "refresh", lifetime |-> 0, delay |-> DAY]
        ELSE IF mapping.lifetime < requested
        THEN base @@ [kind |-> "refresh",
                      lifetime |-> requested - mapping.lifetime,
                      delay |-> mapping.lifetime]
        ELSE base @@ [kind |-> "expiry", lifetime |-> 0,
                      delay |-> mapping.lifetime]

\* 4.H steps 3 and 4
SpecSave(proto, intPort, requested, mapping, am, tm, nid) ==
    IF mapping.externalPort = FailPort
    THEN [mapping |-> mapping, activeMappings |-> am, timers |-> tm,
          nextTimerId |-> nid]
    ELSE LET t == SpecTimer(nid, proto, intPort, requested, mapping)
             m == [mapping EXCEPT !.timeoutId = nid,
                                  !.deleter = <<proto, TRUE>>]
         IN  [mapping |-> m,
              activeMappings |-> Insert(am, m.externalPort, m),
              timers |-> tm \cup {t},
              nextTimerId |-> nid + 1]

\* the mappings a NAT-PMP add can resolve with: a failure, or what one of the
\* gateways granted
PmpOutcomes(intPort, extPort, ips) ==
    {[router |-> NoIp, mapping |-> NewMapping]} \cup
    (IF ips = << >> THEN {}
     ELSE {[router |-> g,
            mapping |-> [NewMapping EXCEPT
                            !.protocol = "natPmp", !.internalPort = intPort,
                            !.internalIp = PrivateIpFor(ips, g),
                            !.externalPort = p, !.lifetime = l]] :
           g \in PmpGateways, p \in {extPort}, l \in Grants})

\* the mappings a UPnP add can resolve with: no router, a SOAP fault, or the
\* mapping as requested
UpnpOutcomes(intPort, extPort, lifetime, ips) ==
    {NewMapping, [NewMapping EXCEPT !.errInfo = "ConflictInMappingEntry"]} \cup
    (IF ips = << >> THEN {}
     ELSE {[NewMapping EXCEPT
               !.protocol = "upnp", !.internalPort = intPort,
               !.internalIp = ips[1],
               !.externalPort = extPort, !.lifetime = lifetime]})

\* natPmp.addMapping resolves
PmpResolve ==
    \E c \in calls, hostIps \in HostIpChoices :
        /\ IsAdd(c) /\ c.proto = "natPmp" /\ c.pc = "pmp"
        /\ \E o \in PmpOutcomes(c.intPort, c.extPort, hostIps) :
              LET s == SpecSave("natPmp", c.intPort, c.lifetime, o.mapping,
                                activeMappings, timers, nextTimerId)
              IN  /\ activeMappings' = s.activeMappings
                  /\ timers' = s.timers
                  /\ nextTimerId' = s.nextTimerId
                  /\ routerIpCache' =
                        IF o.router = NoIp \/ Includes(routerIpCache, o.router)
                        THEN routerIpCache
                        ELSE Append(routerIpCache, o.router)
                  /\ Resolve(c, s.mapping, "PmpResolve")
        /\ UNCHANGED <<protocolSupportCache>>

\* upnp.addMapping resolves
UpnpResolve ==
    \E c \in calls, hostIps \in HostIpChoices :
        /\ IsAdd(c) /\ c.proto = "upnp" /\ c.pc = "upnp"
        /\ \E m \in UpnpOutcomes(c.intPort, c.extPort, c.lifetime, hostIps) :
              LET s == SpecSave("upnp", c.intPort, c.lifetime, m,
                                activeMappings, timers, nextTimerId)
              IN  /\ activeMappings' = s.activeMappings
                  /\ timers' = s.timers
                  /\ nextTimerId' = s.nextTimerId
                  /\ Resolve(c, s.mapping, "UpnpResolve")
        /\ UNCHANGED <<routerIpCache, protocolSupportCache>>

(***************************************************************************)
(* Deletion                                                                *)
(***************************************************************************)
\* the external ports a caller may name
Keys == ExtPorts \cup AltPorts

\* a faulty lookup that hands out a deleter for a port without an entry
DeleteLookupDefault(am, extPort) ==
    IF extPort \in DOMAIN am THEN am[extPort].deleter ELSE <<"upnp", TRUE>>

\* PortControl.deleteMapping: activeMappings[extPort], undefined when absent
DeleteLookup(am, extPort) ==
    IF extPort \in DOMAIN am THEN am[extPort].deleter ELSE << >>

DeleteEv(act, port, proto) ==
    [Ev(act) EXCEPT !.op = "deleteMapping", !.port = port, !.proto = proto]

\* PortControl.deleteMapping(extPort): false at once without an entry, else the
\* mapping's deleter runs
DeleteMapping ==
    \E extPort \in Keys :
        LET deleter == DeleteLookup(activeMappings, extPort)
        IN  IF deleter = << >>
            THEN /\ ev' = [DeleteEv("deleteMapping", extPort, Undefined)
                              EXCEPT !.outcome = "resolved", !.ok = FALSE]
                 /\ UNCHANGED <<activeMappings, routerIpCache,
                                protocolSupportCache, timers, nextTimerId,
                                calls, probe>>
            ELSE /\ RoomForCall
                 /\ calls' = calls \cup
                       {NewCall("delete", "api", deleter[1],
                                IF deleter[1] = "pcp" THEN "dwaves" ELSE "sdel",
                                0, extPort, 0, deleter[2])}
                 /\ ev' = DeleteEv("deleteMapping", extPort, deleter[1])
                 /\ UNCHANGED <<activeMappings, routerIpCache,
                                protocolSupportCache, timers, nextTimerId,
                                probe>>

\* the deletion call c settled with `ok` (a rejection is caught as false)
DeleteDone(c, ok, accepted, act) ==
    /\ calls' = calls \ {c}
    /\ ev' = [DeleteEv(act, c.extPort, c.proto) EXCEPT
                 !.outcome = "resolved", !.ok = ok, !.accepted = accepted,
                 !.sent = c.sent]

\* _sendDeletionRequestsInWaves after its getPrivateIps settled
PcpDelWaves ==
    \E c \in calls, hostIps \in HostIpChoices :
        /\ c.op = "delete" /\ c.pc = "dwaves"
        /\ IF hostIps = << >> \/ ~c.hasCache
           THEN DeleteDone(c, FALSE, FALSE, "PcpDelWaves")
           ELSE LET matchedRouterIps ==
                        arrAdd(routerIpCache, FilterTable[hostIps])
                IN  /\ calls' = (calls \ {c}) \cup
                          {[c EXCEPT !.matched = matchedRouterIps,
                                     !.pc = "dips"]}
                    /\ ev' = Ev("turn")
        /\ UNCHANGED <<activeMappings, routerIpCache, protocolSupportCache,
                       timers, nextTimerId, probe>>

\* a faulty deletion that passes no nonce, so that sendPcpRequest draws one
DeletionRequestNoNonce(entry) ==
    [intPort |-> entry.internalPort, extPort |-> 0, lifetime |-> 0,
     nonce |-> NoNonce]

\* var intPort = activeMappings[extPort].internalPort;
\* var nonce = activeMappings[extPort].nonce;
\* sendPcpRequest(routerIp, privateIp, intPort, 0, 0, nonce)
DeletionRequest(entry) ==
    [intPort |-> entry.internalPort, extPort |-> 0, lifetime |-> 0,
     nonce |-> entry.nonce]

\* _sendDeletionRequests(matchedRouterIps) after its getPrivateIps settled:
\* internalPort and nonce are read from the entry (a TypeError when it is
\* gone), then the lifetime-0 requests go out
PcpDelSend ==
    \E c \in calls, hostIps \in HostIpChoices :
        /\ c.op = "delete" /\ c.pc = "dips"
        /\ IF \/ hostIps = << >>
              \/ c.extPort \notin DOMAIN activeMappings
              \/ WaveThrows(c.matched, hostIps)
           THEN DeleteDone(c, FALSE, FALSE, "PcpDelSend")
           ELSE /\ calls' = (calls \ {c}) \cup
                      {LET r == DeletionRequest(activeMappings[c.extPort])
                       IN  [c EXCEPT
                              !.privateIps = hostIps,
                              !.sent = @ + 1,
                              !.request = r,
                              !.intPort = r.intPort,
                              !.mapping = [NewMapping EXCEPT !.nonce = r.nonce],
                              !.pc = "dreqs"]}
                /\ ev' = Ev("turn")
        /\ UNCHANGED <<activeMappings, routerIpCache, protocolSupportCache,
                       timers, nextTimerId, probe>>

\* `if (mapping.externalPort !== -1) return mapping;` in
\* _sendDeletionRequestsInWaves: its argument is the array of responses, whose
\* externalPort is undefined, so the responses of the first wave are returned
\* whatever they are
FirstWaveReturned(responses) == TRUE

Accepted(reply) == reply.got /\ reply.result \in {0, NO_RESOURCES}

\* a faulty forEach that takes any reply, whatever its result code, for a
\* successful deletion
RECURSIVE DeleteEntriesAnyCode(_, _, _, _, _)
DeleteEntriesAnyCode(responses, i, extPort, am, tm) ==
    IF i > Len(responses)
    THEN [activeMappings |-> am, timers |-> tm, threw |-> FALSE]
    ELSE IF ~responses[i].got
    THEN DeleteEntriesAnyCode(responses, i + 1, extPort, am, tm)
    ELSE IF extPort \notin DOMAIN am
    THEN [activeMappings |-> am, timers |-> tm, threw |-> TRUE]
    ELSE DeleteEntriesAnyCode(responses, i + 1, extPort, Remove(am, extPort),
                              {t \in tm : t.id # am[extPort].timeoutId})

\* responses.forEach of _deleteFromActiveMappings, from index i on: every
\* accepted reply clears the stored timeout and deletes the entry; reading
\* timeoutId of an entry that is gone throws
RECURSIVE DeleteEntries(_, _, _, _, _)
DeleteEntries(responses, i, extPort, am, tm) ==
    IF i > Len(responses)
    THEN [activeMappings |-> am, timers |-> tm, threw |-> FALSE]
    ELSE IF ~Accepted(responses[i])
    THEN DeleteEntries(responses, i + 1, extPort, am, tm)
    ELSE IF extPort \notin DOMAIN am
    THEN [activeMappings |-> am, timers |-> tm, threw |-> TRUE]
    ELSE DeleteEntries(responses, i + 1, extPort, Remove(am, extPort),
                       {t \in tm : t.id # am[extPort].timeoutId})

\* the value _deleteFromActiveMappings returns: the `return true` belongs to
\* the forEach callback, the function itself ends with `return false`
DeleteResult(responses) == FALSE

\* the Promise.all of the deletion requests settled
PcpDelReplies ==
    \E c \in calls :
        /\ c.op = "delete" /\ c.pc = "dreqs"
        /\ \E responses \in WaveResponses(c.matched, DelReplies(c.mapping.nonce)) :
              /\ FirstWaveReturned(responses)
              /\ LET d == DeleteEntries(responses, 1, c.extPort,
                                        activeMappings, timers)
                 IN  /\ activeMappings' = d.activeMappings
                     /\ timers' = d.timers
                     /\ DeleteDone(c, IF d.threw THEN FALSE
                                      ELSE DeleteResult(responses),
                                   \E i \in 1..Len(responses) :
                                       Accepted(responses[i]),
                                   "PcpDelReplies")
        /\ UNCHANGED <<routerIpCache, protocolSupportCache, nextTimerId,
                       probe>>

\* the deleter of a NAT-PMP or UPnP mapping settles (4.H): on success the
\* timer is cancelled and the entry removed
SpecDelete ==
    \E c \in calls :
        /\ c.op = "delete" /\ c.pc = "sdel"
        /\ \E ok \in BOOLEAN :
              IF ok /\ c.extPort \in DOMAIN activeMappings
              THEN /\ timers' = {t \in timers :
                                   t.id # activeMappings[c.extPort].timeoutId}
                   /\ activeMappings' = Remove(activeMappings, c.extPort)
                   /\ DeleteDone(c, TRUE, TRUE, "SpecDelete")
              ELSE /\ UNCHANGED <<activeMappings, timers>>
                   /\ DeleteDone(c, FALSE, FALSE, "SpecDelete")
        /\ UNCHANGED <<routerIpCache, protocolSupportCache, nextTimerId,
                       probe>>

(***************************************************************************)
(* Timers                                                                  *)
(***************************************************************************)
\* a refresh timer fires: addMapping.bind({}, intPort, externalPort, lifetime,
\* activeMappings) runs; pcp.ts binds no routerIpCache
RefreshFire ==
    \E t \in timers :
        /\ t.kind = "refresh"
        /\ RoomForAdd
        /\ timers' = timers \ {t}
        /\ calls' = calls \cup
              {StartAdd("refresh", t.proto, t.intPort, t.port, t.lifetime,
                        t.hasCache)}
        /\ ev' = Ev("turn")
        /\ UNCHANGED <<activeMappings, routerIpCache, protocolSupportCache,
                       nextTimerId, probe>>

\* an expiry timer fires: delete activeMappings[mapping.externalPort]
ExpiryFire ==
    \E t \in timers :
        /\ t.kind = "expiry"
        /\ timers' = timers \ {t}
        /\ activeMappings' = Remove(activeMappings, t.port)
        /\ ev' = [Ev("ExpiryFire") EXCEPT !.op = "expiry", !.proto = t.proto,
                     !.intPort = t.intPort, !.port = t.port,
                     !.lifetime = t.requested, !.granted = t.delay]
        /\ UNCHANGED <<routerIpCache, protocolSupportCache, nextTimerId,
                       calls, probe>>

(***************************************************************************)
(* PortControl: probeProtocolSupport and close                             *)
(***************************************************************************)
\* probeProtocolSupport(): the three probes and getUpnpControlUrl start
ProbeStart ==
    /\ ~probe.active
    /\ Cardinality(calls) < MaxCalls
    /\ nextTimerId + PendingAdds + 2 <= MaxTimers
    /\ probe' = [active |-> TRUE, natPmp |-> "pending", pcp |-> "pending",
                 upnp |-> "pending", upnpControlUrl |-> "pending"]
    /\ calls' = calls \cup
          {StartAdd("probe", "pcp", PCP_PROBE_PORT, PCP_PROBE_PORT,
                    PROBE_LIFETIME, TRUE)}
    /\ ev' = [Ev("probeProtocolSupport") EXCEPT !.op = "probeProtocolSupport"]
    /\ UNCHANGED <<activeMappings, routerIpCache, protocolSupportCache,
                   timers, nextTimerId>>

Bool(b) == IF b THEN "true" ELSE "false"

\* natPmp.probeSupport resolves (4.E): an add on the probe port for 120 s
ProbePmp ==
    /\ probe.natPmp = "pending"
    /\ \E hostIps \in HostIpChoices :
       \E o \in PmpOutcomes(NAT_PMP_PROBE_PORT, NAT_PMP_PROBE_PORT, hostIps) :
          LET s == SpecSave("natPmp", NAT_PMP_PROBE_PORT, PROBE_LIFETIME,
                            o.mapping, activeMappings, timers, nextTimerId)
          IN  /\ activeMappings' = s.activeMappings
              /\ timers' = s.timers
              /\ nextTimerId' = s.nextTimerId
              /\ routerIpCache' =
                    IF o.router = NoIp \/ Includes(routerIpCache, o.router)
                    THEN routerIpCache
                    ELSE Append(routerIpCache, o.router)
              /\ probe' = [probe EXCEPT !.natPmp =
                              Bool(s.mapping.externalPort # FailPort)]
    /\ ev' = Ev("turn")
    /\ UNCHANGED <<protocolSupportCache, calls>>

\* upnp.probeSupport resolves (4.G): an add on the probe port for 120 s
ProbeUpnp ==
    /\ probe.upnp = "pending"
    /\ \E hostIps \in HostIpChoices :
       \E m \in UpnpOutcomes(UPNP_PROBE_PORT, UPNP_PROBE_PORT, PROBE_LIFETIME,
                             hostIps) :
          LET s == SpecSave("upnp", UPNP_PROBE_PORT, PROBE_LIFETIME, m,
                            activeMappings, timers, nextTimerId)
          IN  /\ activeMappings' = s.activeMappings
              /\ timers' = s.timers
              /\ nextTimerId' = s.nextTimerId
              /\ probe' = [probe EXCEPT !.upnp =
                              Bool(s.mapping.externalPort # FailPort)]
    /\ ev' = Ev("turn")
    /\ UNCHANGED <<routerIpCache, protocolSupportCache, calls>>

\* upnp.getUpnpControlUrl resolves: the URL, or the empty string
ProbeUrl ==
    /\ probe.upnpControlUrl = "pending"
    /\ \E url \in ControlUrls : probe' = [probe EXCEPT !.upnpControlUrl = url]
    /\ ev' = Ev("turn")
    /\ UNCHANGED <<activeMappings, routerIpCache, protocolSupportCache,
                   timers, nextTimerId, calls>>

\* a faulty .then that stores the outcomes of the NAT-PMP and the PCP probe
\* under each other's flag
SupportCacheSwapped(support) ==
    [natPmp |-> support[2], pcp |-> support[1], upnp |-> support[3],
     upnpControlUrl |-> support[4]]

\* _this.protocolSupportCache.natPmp = support[0]; ... (arrays start at 1 here)
SupportCache(support) ==
    [natPmp |-> support[1], pcp |-> support[2], upnp |-> support[3],
     upnpControlUrl |-> support[4]]

\* return { natPmp: support[0], pcp: support[1], upnp: support[2] }
SupportTriple(support) == <<support[1], support[2], support[3]>>

\* the .then of Promise.all([...]) in probeProtocolSupport: it runs when all
\* four settled and none rejected, and fills the cache
ProbeFinish ==
    /\ probe.active
    /\ "pending" \notin {probe.natPmp, probe.pcp, probe.upnp,
                         probe.upnpControlUrl}
    /\ probe' = NoProbe
    /\ IF probe.pcp = "rejected"
       THEN /\ ev' = Ev("turn")
            /\ UNCHANGED protocolSupportCache
       ELSE LET support == <<probe.natPmp, probe.pcp, probe.upnp,
                              probe.upnpControlUrl>>
            IN  /\ protocolSupportCache' = SupportCache(support)
                /\ ev' = [Ev("ProbeFinish") EXCEPT
                             !.op = "probeProtocolSupport",
                             !.outcome = "resolved",
                             !.tried = <<probe.natPmp, probe.pcp, probe.upnp>>,
                             !.returned = SupportTriple(support)]
    /\ UNCHANGED <<activeMappings, routerIpCache, timers, nextTimerId,
                   calls>>

\* close(): `_this.activeMappings.forEach(..)` is called on a plain object,
\* which has no forEach; the TypeError is thrown inside the Promise executor
\* and rejects the promise before a key is collected or a deletion started
Close ==
    /\ ev' = [Ev("close") EXCEPT !.op = "close", !.outcome = "rejected",
                 !.keys = DOMAIN activeMappings, !.invoked = {}]
    /\ closed' = TRUE
    /\ UNCHANGED <<activeMappings, routerIpCache, protocolSupportCache,
                   timers, nextTimerId, calls, probe>>

\* a public call of the host / a turn of the event loop
\* close() tears the orchestrator down: it is the last call the host makes
Api(A) ==
    /\ ~closed /\ apiCalls < MaxApiCalls
    /\ A
    /\ apiCalls' = apiCalls + 1
    /\ UNCHANGED <<closed, req, pure>>
Teardown(A) ==
    /\ ~closed /\ apiCalls < MaxApiCalls
    /\ A
    /\ apiCalls' = apiCalls + 1
    /\ UNCHANGED <<req, pure>>
Turn(A) == A /\ UNCHANGED <<apiCalls, closed, req, pure>>

Next ==
    \/ Api(AddMapping)
    \/ Turn(PmpResolve)
    \/ Turn(PcpWaves)
    \/ Turn(PcpSend)
    \/ Turn(PcpReplies)
    \/ Turn(UpnpResolve)
    \/ Api(DeleteMapping)
    \/ Turn(PcpDelWaves)
    \/ Turn(PcpDelSend)
    \/ Turn(PcpDelReplies)
    \/ Turn(SpecDelete)
    \/ Turn(RefreshFire)
    \/ Turn(ExpiryFire)
    \/ Api(ProbeStart)
    \/ Turn(ProbePmp)
    \/ Turn(ProbeUpnp)
    \/ Turn(ProbeUrl)
    \/ Turn(ProbeFinish)
    \/ Teardown(Close)

Spec == Init /\ [][Next]_vars

\* one sendPcpRequest on its own: the orchestrator stays as constructed
mainVars == <<activeMappings, routerIpCache, protocolSupportCache, timers,
              nextTimerId, calls, probe, ev, apiCalls, closed>>

ReqInit == MainInit /\ req \in Requests /\ pure = NoPure

ReqNext ==
    \/ ReqBind /\ UNCHANGED <<mainVars, pure>>
    \/ ReqData /\ UNCHANGED <<mainVars, pure>>
    \/ ReqTimeout /\ UNCHANGED <<mainVars, pure>>

ReqSpec == ReqInit /\ [][ReqNext]_vars

\* longestPrefixMatch on its own
LpmInit == MainInit /\ req = NoReq /\ pure \in LpmInputs

LpmNext == LpmApply /\ UNCHANGED <<mainVars, req>>

LpmSpec == LpmInit /\ [][LpmNext]_vars

\* the waves of one add and one wave run, alone
WaveInit == MainInit /\ req = NoReq /\ pure \in WaveInputs

WaveNext == WaveApply /\ UNCHANGED <<mainVars, req>>

WaveSpec == WaveInit /\ [][WaveNext]_vars

(***************************************************************************)
(* Properties                                                              *)
(***************************************************************************)
NoProtocolErr == "No protocols are supported from last probe"

IsPrefix(s, t) == Len(s) <= Len(t) /\ \A i \in 1..Len(s) : s[i] = t[i]

TimersFor(port) == {t \in timers : t.port = port}

\* C1: when a PCP deleteMapping(p) completes and a router replied with result
\* code 0 or 8, it resolves true and the registry holds no entry for p
C1_DeleteResolvesTrue ==
    (ev.op = "deleteMapping" /\ ev.proto = "pcp" /\ ev.outcome = "resolved"
        /\ ev.accepted)
    => (ev.ok /\ ev.port \notin DOMAIN activeMappings)

\* C2: no addMapping call ends in a rejection; every completed call yields a
\* Mapping
C2_AddNeverRejects ==
    ev.op = "addMapping" => ev.outcome # "rejected"

\* C3: with an empty support cache addMapping tries NAT-PMP, PCP and UPnP in
\* that order, starts a client only after the one before it resolved with
\* externalPort -1, and starts none after a success
C3_ChainInOrder ==
    /\ \A c \in calls : c.via = "chain" =>
          /\ c.tried # << >>
          /\ IsPrefix(c.tried, Protocols)
          /\ c.proto = c.tried[Len(c.tried)]
          /\ Len(c.outs) = Len(c.tried) - 1
          /\ \A i \in 1..Len(c.outs) : c.outs[i] = FailPort
    /\ (ev.via = "chain" /\ ev.outcome = "resolved") =>
          /\ ev.tried # << >>
          /\ IsPrefix(ev.tried, Protocols)
          /\ Len(ev.outs) = Len(ev.tried)
          /\ \A i \in 1..(Len(ev.outs) - 1) : ev.outs[i] = FailPort
          /\ ev.outs[Len(ev.outs)] = ev.ext
          /\ (ev.ext = FailPort => ev.tried = Protocols)

\* C3 happens: UPnP succeeded after NAT-PMP and PCP both resolved with -1
C3_Witness ==
    /\ ev.via = "chain" /\ ev.outcome = "resolved"
    /\ ev.tried = Protocols
    /\ ev.ext # FailPort

\* C4: close() takes the keys of the registry, invokes deleteMapping once for
\* each of them and resolves
C4_CloseDeletesEveryKey ==
    ev.op = "close" => (ev.outcome = "resolved" /\ ev.invoked = ev.keys)

\* C5: once deleteMapping(p) has removed the entry of p, no timer armed for
\* that entry is pending (stated for the first mapping ever saved, whose timer
\* is the only one armed so far)
C5_DeleteCancelsTimer ==
    (ev.op = "deleteMapping" /\ ev.outcome = "resolved" /\ ev.accepted
        /\ ev.port \notin DOMAIN activeMappings /\ nextTimerId = 2)
    => TimersFor(ev.port) = {}

\* C6: every entry of the registry has exactly one pending timer; a refresh
\* that has fired and is still running counts as its timer (stated for the
\* entries and timers of PCP)
C6_OneTimerPerEntry ==
    \A k \in DOMAIN activeMappings :
        activeMappings[k].protocol = "pcp" =>
            Cardinality({t \in TimersFor(k) : t.proto = "pcp"})
            + Cardinality({c \in calls : c.via = "refresh" /\ c.proto = "pcp"
                                            /\ c.extPort = k}) = 1

\* C7: every entry of the registry is stored under its own externalPort, and
\* that port is not -1
C7_KeyIsExternalPort ==
    \A k \in DOMAIN activeMappings :
        activeMappings[k].externalPort = k /\ k # FailPort

\* C7 happens: a PCP mapping is stored under the port the router assigned
\* instead of the requested one
C7_Witness ==
    \E k \in DOMAIN activeMappings :
        /\ k \in AltPorts
        /\ activeMappings[k].protocol = "pcp"
        /\ activeMappings[k].externalPort = k

\* C8: with all three protocol flags false, addMapping returns at once a
\* failure Mapping (externalPort -1, errInfo "No protocols are supported from
\* last probe"), starts no client and changes neither the registry nor the
\* caches
C8_NoProtocolFailsAtOnce ==
    [][(/\ protocolSupportCache.natPmp = "false"
        /\ protocolSupportCache.pcp = "false"
        /\ protocolSupportCache.upnp = "false"
        /\ ev'.act = "addMapping")
       => (/\ ev'.outcome = "resolved"
           /\ ev'.ext = FailPort
           /\ ev'.errInfo = NoProtocolErr
           /\ UNCHANGED <<activeMappings, routerIpCache, protocolSupportCache,
                          timers, nextTimerId, calls, probe>>)]_vars

\* C8 happens: addMapping has just returned under an all-false cache
C8_Witness ==
    /\ protocolSupportCache.natPmp = "false"
    /\ protocolSupportCache.pcp = "false"
    /\ protocolSupportCache.upnp = "false"
    /\ ev.act = "addMapping" /\ ev.outcome = "resolved"
    /\ ev.ext = FailPort /\ ev.errInfo = NoProtocolErr

\* C9: deleteMapping(p) without an entry for p resolves false, starts no
\* deleter and changes neither the registry, nor the timers, nor the caches
C9_DeleteAbsent ==
    [][(ev'.act = "deleteMapping" /\ ev'.port \notin DOMAIN activeMappings)
       => (/\ ev'.outcome = "resolved"
           /\ ~ev'.ok
           /\ UNCHANGED <<activeMappings, routerIpCache, protocolSupportCache,
                          timers, nextTimerId, calls, probe>>)]_vars

\* C9 happens: deleteMapping has just returned false for a port without an
\* entry while another port is mapped and its timer pending
C9_Witness ==
    /\ ev.act = "deleteMapping" /\ ev.outcome = "resolved" /\ ~ev.ok
    /\ ev.port \notin DOMAIN activeMappings
    /\ DOMAIN activeMappings # {}
    /\ timers # {}

\* C10: the timer a PCP addMapping with lifetime 0 arms fires after 24 hours
\* and calls addMapping again with lifetime 0, whatever lifetime was granted
C10_StaticRefreshDaily ==
    \A t \in timers :
        (t.proto = "pcp" /\ t.requested = 0)
        => (t.kind = "refresh" /\ t.delay = DAY /\ t.lifetime = 0)

\* the timer a successful add has just armed, as its caller sees it complete
ArmedBy(e) == {t \in timers : t.id = e.armed}

PcpAddDone(e) ==
    /\ e.proto = "pcp" /\ e.outcome = "resolved"
    /\ e.op \in {"addMapping", "probePcp"}
    /\ e.ext # FailPort

\* C11: a PCP addMapping with lifetime L > 0 that is granted G < L at port g
\* schedules exactly one refresh: it fires after G seconds and calls addMapping
\* with the same internal port, external port g and lifetime L - G
C11_RefreshForRemainder ==
    (PcpAddDone(ev) /\ ev.lifetime > 0 /\ ev.granted < ev.lifetime)
    => /\ nextTimerId = ev.armed + 1
       /\ Cardinality(ArmedBy(ev)) = 1
       /\ \A t \in ArmedBy(ev) :
             /\ t.kind = "refresh"
             /\ t.delay = ev.granted
             /\ t.intPort = ev.intPort
             /\ t.port = ev.ext
             /\ t.lifetime = ev.lifetime - ev.granted

\* C11 happens: 300 s were asked for, 120 s granted, and the refresh is armed
C11_Witness ==
    /\ PcpAddDone(ev) /\ ev.lifetime = 300 /\ ev.granted = 120
    /\ \E t \in ArmedBy(ev) : t.kind = "refresh"

\* C12: a PCP addMapping with lifetime L > 0 that is granted G >= L schedules
\* no refresh but one eviction after G seconds, and when that timer fires the
\* entry of the granted port is gone from the registry
C12_EvictionWhenGrantedInFull ==
    /\ (PcpAddDone(ev) /\ ev.lifetime > 0 /\ ev.granted >= ev.lifetime)
       => /\ nextTimerId = ev.armed + 1
          /\ Cardinality(ArmedBy(ev)) = 1
          /\ \A t \in ArmedBy(ev) :
                t.kind = "expiry" /\ t.delay = ev.granted /\ t.port = ev.ext
    /\ (ev.op = "expiry" /\ ev.proto = "pcp")
       => /\ ev.port \notin DOMAIN activeMappings
          /\ ev.lifetime > 0 /\ ev.granted >= ev.lifetime

\* C12 happens: 300 s were asked for, a day granted, and the eviction has run
C12_Witness ==
    /\ ev.op = "expiry" /\ ev.proto = "pcp"
    /\ ev.lifetime = 300 /\ ev.granted = DAY
    /\ ev.port \notin DOMAIN activeMappings

\* C13: a refresh that fires runs with the registry and the router-IP cache
\* of the original call, succeeds, stores the port again and arms a new timer
C13_RefreshKeepsPortOpen ==
    /\ \A c \in calls : (c.via = "refresh" /\ c.proto = "pcp") => c.hasCache
    /\ (ev.op = "refresh" /\ ev.proto = "pcp")
       => /\ ev.outcome = "resolved"
          /\ ev.ext # FailPort
          /\ ev.ext \in DOMAIN activeMappings
          /\ ArmedBy(ev) # {}

\* C14: the socket of a request is closed exactly once on every exit path:
\* never twice, and once the 2 s timer has fired it is not left open (stated
\* for a request that got at most one datagram, and none after the timer)
C14_SocketClosedOnce ==
    (req.active /\ req.replies <= 1 /\ ~req.late)
    => /\ req.closes <= 1
       /\ (req.timer = "fired" => req.closes = 1)

\* C15: after close() a call still in flight may complete, but it stores no
\* entry in the registry and arms no timer (stated for what the PCP client
\* stores and arms)
C15_NothingSavedAfterClose ==
    [][closed =>
          /\ \A k \in DOMAIN activeMappings' :
                activeMappings'[k].protocol = "pcp"
                => /\ k \in DOMAIN activeMappings
                   /\ activeMappings'[k] = activeMappings[k]
          /\ \A t \in timers' : t.proto = "pcp" => t \in timers]_vars

FlagsOf(cache) == <<cache.natPmp, cache.pcp, cache.upnp>>

AllUnknownOrAllBoolean(cache) ==
    \/ \A i \in 1..3 : FlagsOf(cache)[i] = Undefined
    \/ \A i \in 1..3 : FlagsOf(cache)[i] \in {"true", "false"}

\* C16: the flags natPmp, pcp and upnp are all unknown or all boolean; they
\* change only when a probeProtocolSupport completes, which sets each flag to
\* the outcome of its own probe and returns the same triple
C16_FlagsSetTogether ==
    /\ AllUnknownOrAllBoolean(protocolSupportCache)
    /\ [][/\ AllUnknownOrAllBoolean(protocolSupportCache')
          /\ protocolSupportCache' # protocolSupportCache
             => /\ ev'.act = "ProbeFinish"
                /\ probe.active
                /\ FlagsOf(protocolSupportCache')
                      = <<probe.natPmp, probe.pcp, probe.upnp>>
                /\ ev'.returned = FlagsOf(protocolSupportCache')]_vars

\* C16 happens: the NAT-PMP probe failed, the PCP probe succeeded, and the
\* finished probeProtocolSupport left natPmp = false, pcp = true
C16_Witness ==
    /\ ev.act = "ProbeFinish" /\ ev.outcome = "resolved"
    /\ ev.tried[1] = "false" /\ ev.tried[2] = "true"
    /\ protocolSupportCache.natPmp = "false"
    /\ protocolSupportCache.pcp = "true"

\* number of high-order bits two addresses share
SharedBits(a, b) == CHOOSE n \in 0..32 :
    IpMatch(a, b, n) /\ \A k \in (n + 1)..32 : ~IpMatch(a, b, k)

\* the first entry of the list that shares the longest prefix with the target
FirstLongest(list, target) ==
    list[CHOOSE i \in 1..Len(list) :
            /\ \A j \in 1..Len(list) :
                  SharedBits(list[j], target) <= SharedBits(list[i], target)
            /\ \A j \in 1..(i - 1) :
                  SharedBits(list[j], target) < SharedBits(list[i], target)]

\* C17: longestPrefixMatch(list, target) is the first entry of the list whose
\* shared high-order prefix with target is longest; it is a member of the list,
\* and it is target when target is in the list
C17_LongestPrefixMatch ==
    (pure.f = "longestPrefixMatch" /\ pure.done)
    => /\ pure.out = FirstLongest(pure.list, pure.target)
       /\ Includes(pure.list, pure.out)
       /\ (Includes(pure.list, pure.target) => pure.out = pure.target)


\* the PCP add in flight, if any, that no response has reached so far
Unanswered(cs) == {c \in cs : IsAdd(c) /\ c.proto = "pcp" /\ ~c.replied}

\* the caller sees a PCP add complete that no router answered
PcpAddUnanswered(e) ==
    /\ e.proto = "pcp" /\ e.outcome = "resolved"
    /\ e.op \in {"addMapping", "probePcp"}
    /\ e.act \in {"PcpSend", "PcpReplies"}
    /\ ~e.replied

\* C18: a PCP add that no router answers (every request of both waves times
\* out) returns a Mapping whose externalPort is -1; no turn of it stores a
\* registry entry, arms a timer, or changes the router-IP cache or the
\* support cache
C18_NoReplyLeavesNoTrace ==
    [][ /\ PcpAddUnanswered(ev')
           => /\ ev'.ext = FailPort /\ ev'.armed = NoTimer
              /\ UNCHANGED <<activeMappings, timers, nextTimerId,
                             routerIpCache, protocolSupportCache>>
        /\ \A c \in Unanswered(calls) :
              (c \notin calls' /\ Unanswered(calls' \ calls) # {})
              => UNCHANGED <<activeMappings, timers, nextTimerId,
                             routerIpCache, protocolSupportCache>>
      ]_vars

\* C18 happens: the requests of both waves went out, none was answered, and
\* the add completed with externalPort -1
C18_Witness ==
    /\ PcpAddUnanswered(ev) /\ ev.act = "PcpReplies"
    /\ ev.sent = 2 /\ ev.ext = FailPort


\* deleteMapping(p) over PCP has just removed the entry of p
PcpDeleted(p) ==
    /\ ev.op = "deleteMapping" /\ ev.proto = "pcp" /\ ev.act = "PcpDelReplies"
    /\ ev.outcome = "resolved" /\ ev.accepted
    /\ ev.port = p /\ p \notin DOMAIN activeMappings

\* C19: DELETED is terminal.  Once deleteMapping(p) has removed the entry of
\* p no timer of that mapping is left armed; and while p has no entry, only an
\* addMapping that the caller issued (directly or through a probe) stores an
\* entry for p or arms a timer for it when it completes: a refresh in flight
\* does neither (stated for the entries and timers of PCP)
C19_DeletedIsTerminal ==
    /\ [](\A p \in Keys :
             PcpDeleted(p) => {t \in TimersFor(p) : t.proto = "pcp"} = {})
    /\ [][\A p \in Keys :
             (/\ p \notin DOMAIN activeMappings
              /\ \/ /\ p \in DOMAIN activeMappings'
                    /\ activeMappings'[p].protocol = "pcp"
                 \/ \E t \in timers' \ timers :
                       t.port = p /\ t.proto = "pcp")
             => ev'.op \in {"addMapping", "probePcp"}
         ]_vars


\* the PCP deletions in flight
PcpDeletions(cs) == {c \in cs : c.op = "delete" /\ c.proto = "pcp"}

\* C20: a deleteMapping(p) over PCP that no router answers with result code 0
\* or 8 resolves to false, and no turn of it changes the registry or the
\* armed timers
C20_FailedDeleteKeepsEntry ==
    [][\A c \in PcpDeletions(calls) :
          (c \notin calls' /\ ~ev'.accepted)
          => /\ UNCHANGED <<activeMappings, timers>>
             /\ ev'.op = "deleteMapping" => (ev'.outcome = "resolved" /\ ~ev'.ok)
      ]_vars

\* C20 happens: the deletion requests went out, no router accepted, the call
\* resolved to false and the entry of p and its timer are still there
C20_Witness ==
    /\ ev.op = "deleteMapping" /\ ev.proto = "pcp" /\ ev.act = "PcpDelReplies"
    /\ ev.outcome = "resolved" /\ ~ev.accepted /\ ~ev.ok
    /\ ev.port \in DOMAIN activeMappings
    /\ \E t \in TimersFor(ev.port) : t.id = activeMappings[ev.port].timeoutId


\* the first protocol, in the order NAT-PMP, PCP, UPnP, that the cache marks
\* as supported
FirstSupported(cache) ==
    LET i == CHOOSE n \in 1..Len(Protocols) :
                 /\ cache[Protocols[n]] = "true"
                 /\ \A k \in 1..(n - 1) : cache[Protocols[k]] # "true"
    IN  Protocols[i]

SomeSupported(cache) == \E n \in 1..Len(Protocols) : cache[Protocols[n]] = "true"

\* C21: with a known support cache that marks a protocol as supported,
\* addMapping starts the client of the first supported protocol and no other,
\* and what that client resolves with is what the caller gets, -1 included:
\* no other protocol is tried after it
C21_DirectDispatch ==
    /\ [][(/\ ev'.act = "addMapping"
           /\ protocolSupportCache.natPmp # Undefined
           /\ SomeSupported(protocolSupportCache))
          => /\ ev'.via = "direct"
             /\ \E c \in calls' :
                   /\ calls' = calls \cup {c}
                   /\ c.via = "direct" /\ IsAdd(c)
                   /\ c.proto = FirstSupported(protocolSupportCache)
                   /\ c.tried = <<c.proto>> /\ c.outs = << >>
         ]_vars
    /\ [](\A c \in calls : c.via = "direct" => c.tried = <<c.proto>>)
    /\ []((ev.via = "direct" /\ ev.outcome = "resolved"
              /\ ev.act # "addMapping")
          => /\ ev.tried = <<ev.proto>>
             /\ ev.outs = <<ev.ext>>)

\* C21 happens: NAT-PMP is known to be unsupported, PCP and UPnP supported;
\* the PCP client resolved with -1 and the caller got that, UPnP untried
C21_Witness ==
    /\ protocolSupportCache.natPmp = "false"
    /\ protocolSupportCache.pcp = "true"
    /\ protocolSupportCache.upnp = "true"
    /\ ev.via = "direct" /\ ev.outcome = "resolved" /\ ev.op = "addMapping"
    /\ ev.tried = <<"pcp">> /\ ev.outs = <<FailPort>> /\ ev.ext = FailPort


\* the PCP adds in flight
PcpAdds(cs) == {c \in cs : IsAdd(c) /\ c.proto = "pcp"}

\* d is a later position of the call c
SameCall(c, d) ==
    /\ d.via = c.via /\ d.intPort = c.intPort /\ d.extPort = c.extPort
    /\ d.lifetime = c.lifetime /\ d.matched = c.matched

\* C22: a PCP add works on the matched wave first; it goes on to the other
\* wave exactly when the matched wave ended with externalPort -1, and the
\* requests of the other wave go out only after that
C22_MatchedWaveFirst ==
    /\ [](\A c \in PcpAdds(calls) :
             c.pc \in {"ips2", "reqs2"} => c.mapping.externalPort = FailPort)
    /\ [][\A c \in PcpAdds(calls) : c \notin calls' =>
             /\ \A d \in PcpAdds(calls' \ calls) :
                   /\ d.pc = "ips1" => c.pc = "waves"
                   /\ d.pc = "reqs1" => c.pc = "ips1"
                   /\ d.pc = "ips2" => c.pc \in {"ips1", "reqs1"}
                   /\ d.pc = "reqs2" => c.pc = "ips2"
             /\ (/\ c.pc \in {"ips1", "reqs1"}
                 /\ ~\E d \in PcpAdds(calls') :
                        d.pc \in {"reqs1", "ips2"} /\ SameCall(c, d))
                => (ev'.outcome = "resolved" /\ ev'.ext # FailPort)
         ]_vars

\* C22 happens: the matched wave ended with -1 and the requests of the other
\* wave are out
C22_Witness ==
    \E c \in PcpAdds(calls) :
        c.pc = "reqs2" /\ c.sent = 2 /\ c.mapping.externalPort = FailPort


\* C23: a PCP deleteMapping whose matched wave brought no reply with result
\* code 0 or 8 has sent its deletion requests to the other wave as well by the
\* time it resolves
C23_DeletionInBothWaves ==
    (/\ ev.op = "deleteMapping" /\ ev.proto = "pcp"
     /\ ev.act = "PcpDelReplies" /\ ev.outcome = "resolved"
     /\ ~ev.accepted)
    => ev.sent = 2


\* the caller sees a PCP add complete whose replies all carried a result code
\* other than 0
PcpAddRefused(e) ==
    /\ e.proto = "pcp" /\ e.outcome = "resolved"
    /\ e.op \in {"addMapping", "probePcp"}
    /\ e.act = "PcpReplies"
    /\ e.replied /\ ~e.zero

\* C24: a PCP add whose replies all carry a non-zero result code yields a
\* Mapping with externalPort -1 and stores nothing in the registry
C24_NonZeroCodeFails ==
    [][PcpAddRefused(ev')
       => (ev'.ext = FailPort /\ UNCHANGED <<activeMappings, timers>>)]_vars


\* C25: the Mapping a PCP add returns holds the external port, the lifetime
\* and the nonce of the first reply in the wave's order, also when a later
\* router of the wave replied too
C25_FirstReplyWins ==
    (/\ ev.proto = "pcp" /\ ev.outcome = "resolved"
     /\ ev.op \in {"addMapping", "probePcp"}
     /\ ev.act = "PcpReplies" /\ ev.replied)
    => /\ ev.ext = ev.first.externalPort
       /\ ev.granted = ev.first.lifetime


\* C26: one request is a race decided once.  A reply that comes while the
\* 2 s timer is armed fulfils it with that reply, the timer firing first
\* rejects it, and once it is settled neither a later reply nor the timer
\* changes the outcome or the reply it fulfilled with
C26_RaceDecidedOnce ==
    /\ [](req.active =>
            /\ (req.timer = "armed" /\ req.replies = 0) <=> req.outcome = "pending"
            /\ (req.replies > 0 /\ (req.timer = "armed" \/ ~req.late))
               => (req.outcome = "fulfilled" /\ req.data.got)
            /\ (req.timer = "fired" /\ (req.replies = 0 \/ (req.replies = 1 /\ req.late)))
               => (req.outcome = "rejected" /\ ~req.data.got))
    /\ [][req.outcome \in {"fulfilled", "rejected"}
          => (req'.outcome = req.outcome /\ req'.data = req.data)]_vars

\* C26 happens: the reply came first and fulfilled the request, then the
\* timer fired and the request is still fulfilled
C26_Witness ==
    /\ req.active /\ req.outcome = "fulfilled" /\ req.data.got
    /\ req.timer = "fired" /\ ~req.late


\* C27: in one wave the failure of the request to one candidate is that
\* candidate's alone.  When a router of the wave answers a request that can be
\* sent to it, the wave yields a successful Mapping whatever happens to the
\* requests to the other candidates
C27_CandidateFailureIsLocal ==
    (/\ pure.f = "_sendPcpRequests" /\ pure.done
     /\ \E i \in 1..Len(pure.routerIps) :
           /\ AnswersOf(pure.routerIps, pure.answers)[i].got
           /\ longestPrefixMatch(pure.privateIps, pure.routerIps[i]) # NoIp)
    => pure.mapping.externalPort # FailPort


\* two addMapping calls of the host, both at their PCP client after NAT-PMP
\* resolved with -1 for each, and the rest of the program as constructed
TwoAddsInit ==
    /\ activeMappings = EmptyMap
    /\ routerIpCache = << >>
    /\ protocolSupportCache = [natPmp |-> Undefined, pcp |-> Undefined,
                               upnp |-> Undefined, upnpControlUrl |-> Undefined]
    /\ timers = {}
    /\ nextTimerId = 1
    /\ calls = {[StartAdd("chain", "pcp", intPort, extPort, lifetime, TRUE)
                    EXCEPT !.tried = <<"natPmp", "pcp">>,
                           !.outs = <<FailPort>>] :
                  intPort \in IntPorts, extPort \in ExtPorts,
                  lifetime \in Lifetimes}
    /\ probe = NoProbe
    /\ ev = Ev("turn")
    /\ apiCalls = Cardinality(Lifetimes)
    /\ closed = FALSE
    /\ req = NoReq
    /\ pure = NoPure

TwoAddsSpec == TwoAddsInit /\ [][Next]_vars


NoRepeats(seq) == \A i, j \in 1..Len(seq) : i # j => seq[i] # seq[j]

\* C28: the router-IP cache starts empty, never holds a router twice, and
\* every turn leaves it as it is or pushes routers at its end: nothing is
\* removed or moved, also when two adds in flight together are answered by
\* the same router
C28_CacheOnlyGrows ==
    /\ routerIpCache = << >>
    /\ [](NoRepeats(routerIpCache))
    /\ [][/\ IsPrefix(routerIpCache, routerIpCache')
          /\ \A i \in (Len(routerIpCache) + 1)..Len(routerIpCache') :
                routerIpCache'[i] \in Gateways
         ]_vars

\* C28 happens: the two adds that were in flight together both got their
\* mapping over PCP, and the cache holds the one router that answered once
C28_Witness ==
    /\ calls = {} /\ apiCalls = Cardinality(Lifetimes)
    /\ \A id \in 1..2 : \E t \in timers : t.id = id /\ t.proto = "pcp"
    /\ Len(routerIpCache) = 1


Range(seq) == {seq[i] : i \in 1..Len(seq)}

\* seq without the later occurrences of a repeated element
FirstOccurrences(seq) ==
    SelectSeq([i \in 1..Len(seq) |->
                  IF \E j \in 1..(i - 1) : seq[j] = seq[i] THEN NoIp ELSE seq[i]],
              LAMBDA x : x # NoIp)

\* C29: the matched wave is the cache in its order followed by
\* longestPrefixMatch(ROUTER_IPS, ip) for each local ip, repeated entries
\* dropped; the other wave is the entries of ROUTER_IPS that are not in
\* matched, in the order of ROUTER_IPS; the two waves share no entry and
\* together hold every entry of ROUTER_IPS
C29_WavesPartitionRouterIps ==
    (pure.f = "_sendPcpRequests" /\ pure.done)
    => /\ pure.matched =
            FirstOccurrences(pure.cache \o
                [i \in 1..Len(pure.privateIps) |->
                    longestPrefixMatch(ROUTER_IPS, pure.privateIps[i])])
       /\ Range(pure.other) = RouterSet \ Range(pure.matched)
       /\ \A i, j \in 1..Len(pure.other) :
             i < j => IndexOf(ROUTER_IPS, pure.other[i])
                      < IndexOf(ROUTER_IPS, pure.other[j])
       /\ Range(pure.matched) \cap Range(pure.other) = {}
       /\ RouterSet \subseteq Range(pure.matched) \cup Range(pure.other)

\* C29 happens: the router matched for a local address was in the cache
\* already and is in the matched wave once
C29_Witness ==
    /\ pure.f = "_sendPcpRequests" /\ pure.done
    /\ pure.cache # << >>
    /\ \E i \in 1..Len(pure.privateIps) :
          longestPrefixMatch(ROUTER_IPS, pure.privateIps[i]) \in Range(pure.cache)
    /\ Len(pure.matched) < Len(pure.cache) + Len(pure.privateIps)
    /\ pure.other # << >>


\* nonces of the add request that created the registered mapping (a router
\* echoes the nonce of the request in its reply, which is where the entry's
\* nonce is read from)
EntryNonces == {11, 12}

\* a PCP mapping is registered: an add for intPort, or the probe, was granted
\* port 4000 for 120 s by the router 192.168.1.1, whose reply echoed nonce n
RegisteredInit ==
    \E intPort \in IntPorts \cup {PCP_PROBE_PORT}, extPort \in ExtPorts,
       n \in EntryNonces :
        LET lifetime == IF intPort = PCP_PROBE_PORT THEN PROBE_LIFETIME ELSE 0
            reply == [got |-> TRUE, result |-> 0, externalPort |-> extPort,
                      lifetime |-> 120, nonce |-> n]
            r == ParseResponses(<<reply>>, << <<192,168,1,1>> >>,
                     << <<192,168,1,42>> >>, 1,
                     StartAdd("direct", "pcp", intPort, extPort, lifetime,
                              TRUE).mapping,
                     << >>)
            s == PcpSave(intPort, lifetime, TRUE, r.mapping, EmptyMap, {}, 1)
        IN  /\ activeMappings = s.activeMappings
            /\ timers = s.timers
            /\ nextTimerId = s.nextTimerId
            /\ routerIpCache = r.cache
            /\ protocolSupportCache =
                   [natPmp |-> Undefined, pcp |-> Undefined,
                    upnp |-> Undefined, upnpControlUrl |-> Undefined]
            /\ calls = {}
            /\ probe = NoProbe
            /\ ev = Ev("turn")
            /\ apiCalls = 1
            /\ closed = FALSE
            /\ req = NoReq
            /\ pure = NoPure

\* the host goes on adding and deleting, and closes; it does not probe
RegisteredNext ==
    \/ Api(AddMapping)
    \/ Turn(PmpResolve)
    \/ Turn(PcpWaves)
    \/ Turn(PcpSend)
    \/ Turn(PcpReplies)
    \/ Turn(UpnpResolve)
    \/ Api(DeleteMapping)
    \/ Turn(PcpDelWaves)
    \/ Turn(PcpDelSend)
    \/ Turn(PcpDelReplies)
    \/ Turn(SpecDelete)
    \/ Turn(RefreshFire)
    \/ Turn(ExpiryFire)
    \/ Teardown(Close)

RegisteredSpec == RegisteredInit /\ [][RegisteredNext]_vars

Word(hi, lo) == [hi |-> hi, lo |-> lo]

\* a faulty conversion that saturates instead of wrapping
ToInt16Clamp(v) == IF v > 32767 THEN 32767 ELSE IF v < -32768 THEN -32768 ELSE v

\* the conversions DataView.setInt8/16/32 apply to their argument: the value
\* modulo 2^w, read as a signed two's complement number
ToInt8(v) == ((v + 128) % 256) - 128
ToInt16(v) == ((v + 32768) % 65536) - 32768
ToInt32(w) == ToInt16(w.hi) * 65536 + w.lo

\* view.setInt8(offset, v); view.setInt16(offset, v, false);
\* view.setInt32(offset, v, false): the bytes of the signed number, the most
\* significant first
setInt8(view, offset, v) == [view EXCEPT ![offset] = ToInt8(v) % 256]

setInt16(view, offset, v) ==
    LET s == ToInt16(v)
    IN  [view EXCEPT ![offset] = (s \div 256) % 256, ![offset + 1] = s % 256]

setInt32(view, offset, w) ==
    LET s == ToInt32(w)
    IN  [view EXCEPT ![offset] = (s \div 16777216) % 256,
                     ![offset + 1] = (s \div 65536) % 256,
                     ![offset + 2] = (s \div 256) % 256,
                     ![offset + 3] = s % 256]

\* the loop of createArrayBuffer over the rows [bits, byteOffset, value]; a row
\* of another width is reported and skipped
RECURSIVE SetRows(_, _, _)
SetRows(view, matrix, i) ==
    IF i > Len(matrix) THEN view
    ELSE LET row == matrix[i]
             next == IF row[1] = 8 THEN setInt8(view, row[2], row[3])
                     ELSE IF row[1] = 16 THEN setInt16(view, row[2], row[3])
                     ELSE IF row[1] = 32 THEN setInt32(view, row[2], row[3])
                     ELSE view
         IN  SetRows(next, matrix, i + 1)

\* createArrayBuffer(bytes, matrix): a zeroed buffer with the rows written
createArrayBuffer(bytes, matrix) ==
    SetRows([o \in 0..(bytes - 1) |-> 0], matrix, 1)

\* the matrix of sendPcpRequest: version 2 and opcode MAP, the lifetime, the
\* IPv4-mapped client address, the nonce, protocol UDP and the two ports
PcpMatrix(ipOctets, intPort, extPort, lifetime, nonce) ==
    << <<32, 0, Word(513, 0)>>,
       <<32, 4, lifetime>>,
       <<16, 18, 65535>>,
       <<8, 20, ipOctets[1]>>,
       <<8, 21, ipOctets[2]>>,
       <<8, 22, ipOctets[3]>>,
       <<8, 23, ipOctets[4]>>,
       <<32, 24, nonce[1]>>,
       <<32, 28, nonce[2]>>,
       <<32, 32, nonce[3]>>,
       <<8, 36, 17>>,
       <<16, 40, intPort>>,
       <<16, 42, extPort>>,
       <<16, 54, 65535>> >>

PcpBuffer(ipOctets, intPort, extPort, lifetime, nonce) ==
    createArrayBuffer(60, PcpMatrix(ipOctets, intPort, extPort, lifetime, nonce))

\* the unsigned big-endian reads the response parser uses
getUint8(view, offset) == view[offset]
getUint16(view, offset) == view[offset] * 256 + view[offset + 1]
getUint32(view, offset) ==
    Word(getUint16(view, offset), getUint16(view, offset + 2))

\* the fields at the offsets of the MAP layout
ReadFields(view) ==
    [intPort |-> getUint16(view, 40), extPort |-> getUint16(view, 42),
     lifetime |-> getUint32(view, 4),
     nonce |-> <<getUint32(view, 24), getUint32(view, 28),
                 getUint32(view, 32)>>,
     ipOctets |-> <<getUint8(view, 20), getUint8(view, 21),
                    getUint8(view, 22), getUint8(view, 23)>>]

\* ports and 32-bit values on both sides of the sign bit of their width
EncPorts == {0, 1, 4000, 32767, 32768, 55556, 65535}
EncWords == {Word(0, 0), Word(0, 120), Word(1, 20864), Word(32767, 65535),
             Word(32768, 0), Word(65535, 65535)}
EncNonceWords == {Word(0, 11), Word(32768, 1), Word(65535, 65535)}
EncNonces == {<<a, b, c>> : a \in EncNonceWords, b \in EncNonceWords,
                            c \in EncNonceWords}

NoEnc ==
    [f |-> "none", ipOctets |-> <<192, 168, 1, 42>>, intPort |-> 0,
     extPort |-> 0, lifetime |-> Word(0, 0),
     nonce |-> <<Word(0, 0), Word(0, 0), Word(0, 0)>>, done |-> FALSE,
     buffer |-> [o \in 0..59 |-> 0],
     read |-> ReadFields([o \in 0..59 |-> 0])]

EncInputs ==
    {[NoEnc EXCEPT !.f = "createArrayBuffer", !.intPort = i, !.extPort = e,
                   !.lifetime = l, !.nonce = n] :
        i \in EncPorts, e \in EncPorts, l \in EncWords, n \in EncNonces}

\* the request is encoded and the buffer is read back
EncApply ==
    /\ pure.f = "createArrayBuffer" /\ ~pure.done
    /\ LET buffer == PcpBuffer(pure.ipOctets, pure.intPort, pure.extPort,
                               pure.lifetime, pure.nonce)
       IN  pure' = [pure EXCEPT !.done = TRUE, !.buffer = buffer,
                                !.read = ReadFields(buffer)]

\* the encoder on its own
EncInit == MainInit /\ req = NoReq /\ pure \in EncInputs

EncNext == EncApply /\ UNCHANGED <<mainVars, req>>

EncSpec == EncInit /\ [][EncNext]_vars

\* C31: every request that was encoded reads back, as unsigned big-endian
\* numbers at offsets 40, 42, 4 and 24/28/32, as the internal port, external
\* port, lifetime and nonce it was built from
C31_EncoderRoundTrip ==
    (pure.f = "createArrayBuffer" /\ pure.done) =>
        /\ pure.read.intPort = pure.intPort
        /\ pure.read.extPort = pure.extPort
        /\ pure.read.lifetime = pure.lifetime
        /\ pure.read.nonce = pure.nonce

\* a request whose every field has its sign bit set was encoded: the ports
\* are 65535, the lifetime and the nonce words are 2^32-1
C31_Witness ==
    /\ pure.f = "createArrayBuffer" /\ pure.done
    /\ pure.intPort = 65535 /\ pure.extPort = 65535
    /\ pure.lifetime = Word(65535, 65535)
    /\ pure.nonce = <<Word(65535, 65535), Word(65535, 65535),
                      Word(65535, 65535)>>
    /\ pure.buffer[40] = 255 /\ pure.buffer[4] = 255 /\ pure.buffer[0] = 2


\* the timer that fires in this step, when one does
Fired == timers \ timers'

\* the entry under the port of timer t is not the one t was armed for: the
\* save that armed t stored an entry whose timeoutId is t's id when the code
\* keeps the id, and no id when it does not; entries are stored only together
\* with their timer, so an entry that differs there was stored later
NewerEntry(t) ==
    /\ t.port \in DOMAIN activeMappings
    /\ activeMappings[t.port].timeoutId # (IF t.stored THEN t.id ELSE NoTimer)

\* a timer armed by the PCP client whose port holds an entry of the PCP client
PcpOverPcp(t) ==
    /\ t.proto = "pcp"
    /\ t.port \in DOMAIN activeMappings
    /\ activeMappings[t.port].protocol = "pcp"

\* C32: an expiry timer of the PCP client that fires when the entry under its
\* port is a newer PCP entry than the one it was armed for leaves that newer
\* entry in the registry
C32_ExpiryRemovesOnlyItsMapping ==
    [][\A t \in Fired :
          (ev'.act = "ExpiryFire" /\ PcpOverPcp(t) /\ NewerEntry(t)) =>
              /\ t.port \in DOMAIN activeMappings'
              /\ activeMappings'[t.port] = activeMappings[t.port]]_vars


\* the entry under port p is within its granted lifetime: the timer armed
\* with it has not fired (an entry without a kept timer id is one granted in
\* full, stored after any entry that has one)
WithinGrant(p) ==
    \/ activeMappings[p].timeoutId = NoTimer
    \/ \E t \in timers : t.id = activeMappings[p].timeoutId

\* C33: when the add re-issued by a refresh timer of the PCP client has failed
\* or was granted another external port, the registry holds no entry under
\* the original port whose granted lifetime has elapsed
C33_NoEntryOutlivesGrant ==
    (/\ ev.op = "refresh" /\ ev.proto = "pcp"
     /\ (ev.outcome = "rejected" \/ ev.ext # ev.port))
    => (ev.port \in DOMAIN activeMappings => WithinGrant(ev.port))


\* the adds the PCP probe makes: internal and external port 55556 for 120 s
PcpProbeAdd(e) ==
    /\ e.op = "probePcp" /\ e.proto = "pcp" /\ e.outcome = "resolved"
    /\ e.intPort = PCP_PROBE_PORT /\ e.port = PCP_PROBE_PORT
    /\ e.lifetime = PROBE_LIFETIME

\* the entries the PCP probe stored
PcpProbeEntries(am) ==
    {p \in DOMAIN am : am[p].protocol = "pcp"
                       /\ am[p].internalPort = PCP_PROBE_PORT}

\* C34: the add whose result the PCP probe reports is the one on port 55556
\* for 120 s; the probe reports true exactly when that add returned an
\* external port other than -1, and then the mapping is in the registry under
\* the granted port with its timer armed; no step of the probe removes an
\* entry the PCP probe stored
C34_PcpProbeLeavesMapping ==
    /\ [](/\ ev.op = "probePcp" => PcpProbeAdd(ev)
          /\ PcpProbeAdd(ev) =>
                /\ probe.pcp = "true" <=> ev.ext # FailPort
                /\ probe.pcp = "true" =>
                      /\ ev.ext \in PcpProbeEntries(activeMappings)
                      /\ ArmedBy(ev) # {}
                      /\ \A t \in ArmedBy(ev) : t.port = ev.ext)
    /\ [][probe' # probe =>
             PcpProbeEntries(activeMappings) \subseteq DOMAIN activeMappings'
       ]_vars

\* the probe has finished with PCP reported as supported, and the mapping of
\* the probe's add is still in the registry with its timer armed
C34_Witness ==
    /\ ev.act = "ProbeFinish" /\ ev.outcome = "resolved"
    /\ ev.tried[2] = "true" /\ protocolSupportCache.pcp = "true"
    /\ PcpProbeEntries(activeMappings) # {}
    /\ \E t \in timers : t.proto = "pcp" /\ t.intPort = PCP_PROBE_PORT
                         /\ t.port \in PcpProbeEntries(activeMappings)

====
